---- MODULE Spec2Model ----
(***************************************************************************)
(* Model of the Fortuna-derived random number generator of ts-sjcl        *)
(* (src/src/prng.ts, class prng).  One action per public operation; each  *)
(* action is the whole handler, including the reseed, the gating and the  *)
(* event firing it performs.                                               *)
(***************************************************************************)
EXTENDS Integers, Sequences, FiniteSets, TLC

(* ---------------------------------------------------------------------- *)
(* Bounds of the exploration                                               *)
(* ---------------------------------------------------------------------- *)
MaxEvents == 2

MaxReseeds == 2

MaxCounter == 6

MaxTime == 30003

StartTime == 1

FeedEvents == 7

SchedReseeds == 9

SchedEvents == 3

RobinEvents == 3

RobinReseeds == 5

MaxListeners == 3

ListenerEvents == 2

TwinCalls == 4

MaxSpan == 6

CounterReseeds == 3

CounterEvents == 2

BurstEvents == 2

BurstReseeds == 1

(* ---------------------------------------------------------------------- *)
(* Program constants (prng.ts 74-81)                                       *)
(* ---------------------------------------------------------------------- *)
_NOT_READY == 0

_READY == 1

_REQUIRES_RESEED == 2

_MAX_WORDS_PER_BURST == 65536

_PARANOIA_LEVELS == <<0, 48, 64, 96, 128, 192, 256, 384, 512, 768, 1024>>

_MILLISECONDS_PER_RESEED == 30000

_BITS_PER_RESEED == 80

InitialParanoia == 6

\* the JavaScript value `undefined`, for an omitted numeric argument or a
\* missing table entry
Undefined == 0 - 1

\* the literal setDefaultParanoia demands before it accepts level 0
ZeroParanoiaPhrase == "Setting paranoia=0 will ruin your security; use it only for testing"

Levels == 0..10

AllSources == {"user", "mouse"}

(* ---------------------------------------------------------------------- *)
(* Arithmetic helpers                                                      *)
(* ---------------------------------------------------------------------- *)
RECURSIVE Pow2(_)
Pow2(n) == IF n <= 0 THEN 1 ELSE 2 * Pow2(n - 1)

MaxInt32 == 2147483647

MinInt32 == (0 - 2147483647) - 1

\* x + 1 | 0 for an int32 x: the successor, wrapping from 2^31 - 1 to -2^31
Inc32(x) == IF x = MaxInt32 THEN MinInt32 ELSE x + 1

\* x | 0 for an integer x with -2^31 <= x < 2^31, where it changes nothing
ToInt32(x) == x

\* 1 << n : the shift count is taken mod 32 and the result is an int32
Shl1(n) == IF n % 32 = 31 THEN MinInt32 ELSE Pow2(n % 32)

\* c & (1 << i) is truthy, for an int32 c >= 0
BitSet(c, i) == IF i % 32 = 31 THEN FALSE ELSE ((c \div Pow2(i % 32)) % 2) = 1

RECURSIVE SumSeq(_)
SumSeq(s) == IF s = <<>> THEN 0 ELSE Head(s) + SumSeq(Tail(s))

RECURSIVE Gcd(_, _)
Gcd(a, b) == IF b = 0 THEN a ELSE Gcd(b, a % b)

Max(a, b) == IF a >= b THEN a ELSE b

\* the number n / d, kept as a fraction in lowest terms; 1.0 is <<1, 1>>
Frac(n, d) == LET g == Gcd(n, d) IN <<n \div g, d \div g>>

One == <<1, 1>>

(* ---------------------------------------------------------------------- *)
(* Collaborators: the hash accumulator and the block _cipher.  Fixed        *)
(* deterministic stand-ins over small words.                               *)
(* ---------------------------------------------------------------------- *)
WordMod == 3

\* the sum of the words mod WordMod, reduced word by word
RECURSIVE SumMod(_)
SumMod(s) == IF s = <<>> THEN 0 ELSE ((Head(s) % WordMod) + SumMod(Tail(s))) % WordMod

\* hash.sha256.hash(words) and accumulator.finalize(): 8 digest words
Sha256(words) ==
    LET s == SumMod(words)
    IN <<(s + 1) % WordMod, (s + 2) % WordMod, (s + 3) % WordMod, (s + 4) % WordMod,
         (s + 5) % WordMod, (s + 6) % WordMod, (s + 7) % WordMod, (s + 8) % WordMod>>

\* the value of this._cipher before the first reseed
NoCipher == <<>>

\* new _cipher.aes(_key): the keyed _cipher, holding its _key
Aes(k) == <<k>>

\* _cipher.encrypt(block): 4 words
Encrypt(c, block) ==
    LET s == (SumMod(c[1]) + 2 * SumMod(block)) % WordMod
    IN <<(s + 1) % WordMod, (s + 2) % WordMod, (s + 3) % WordMod, (s + 4) % WordMod>>

(* ---------------------------------------------------------------------- *)
(* State                                                                   *)
(* ---------------------------------------------------------------------- *)
VARIABLES _pools, _poolEntropy, _reseedCount, _robins, _eventId, _collectorIds,
          _collectorIdNext, _strength, _poolStrength, _nextReseed, _key, _counter,
          _cipher, _defaultParanoia, now, call, fired, _callbacks, _callbackI,
          twin, random

genVars == <<_pools, _poolEntropy, _reseedCount, _strength, _poolStrength,
             _nextReseed, _key, _counter, _cipher>>

srcVars == <<_robins, _eventId, _collectorIds, _collectorIdNext>>

\* the listener registry: per channel the set of <<key, callback>> entries
cbVars == <<_callbacks, _callbackI>>

vars == <<_pools, _poolEntropy, _reseedCount, _robins, _eventId, _collectorIds,
          _collectorIdNext, _strength, _poolStrength, _nextReseed, _key, _counter,
          _cipher, _defaultParanoia, now, call, fired, _callbacks, _callbackI,
          twin, random>>

\* the calls made on an instance so far, with their results (script), and
\* the calls of the script made so far on a second instance, with the
\* results it gave (replay)
NoTwin == [phase |-> 1, script |-> <<>>, replay |-> <<>>]

\* the exported generator `random` (prng.ts 486), whose listener registry
\* _fireEvent reads: either the generator modelled here itself (self, its
\* registry being _callbacks and _callbackI), or another instance, with its
\* own registry
ThisIsRandom == [self |-> TRUE, _callbacks |-> [progress |-> {}, seeded |-> {}],
                 _callbackI |-> 0]

OtherIsRandom == [self |-> FALSE, _callbacks |-> [progress |-> {}, seeded |-> {}],
                  _callbackI |-> 0]

\* what the last call did: the observable outcome of the handler
NoCall == [op |-> "none", p |-> Undefined, n |-> 0, result |-> "ok",
           oldReady |-> 0, seeded |-> <<>>, progress |-> <<>>, order |-> <<>>,
           reseed |-> "none", consumed |-> {}, grew |-> FALSE, blocks |-> 0,
           gates |-> 0, steps |-> <<>>, keyed |-> FALSE, out |-> <<>>,
           robin |-> Undefined, source |-> "", est |-> 0,
           genKey |-> <<>>, genCounter |-> <<>>, lastKey |-> <<>>,
           lastCounter |-> <<>>, phrase |-> "",
           delivered |-> <<>>,
           rnd |-> <<>>]

(* ---------------------------------------------------------------------- *)
(* Readiness and progress (prng.ts 221-246)                                *)
(* ---------------------------------------------------------------------- *)
\* status & flag, for a status in 0..3 and a flag in {1, 2}
HasFlag(status, flag) == ((status \div flag) % 2) = 1

\* this._PARANOIA_LEVELS[level]
Required(level) == _PARANOIA_LEVELS[level + 1]

\* isReady without the truthiness test of this._strength
isReady_NoStrengthGuard(p) ==
    LET entropyRequired == Required(IF p # Undefined THEN p ELSE _defaultParanoia)
    IN IF _strength >= entropyRequired
       THEN IF _poolEntropy[1] > _BITS_PER_RESEED /\ now > _nextReseed
            THEN _REQUIRES_RESEED + _READY
            ELSE _READY
       ELSE IF _poolStrength >= entropyRequired
            THEN _REQUIRES_RESEED + _NOT_READY
            ELSE _NOT_READY

\* isReady taking the reseed as due already at the deadline itself
isReady_DueAtDeadline(p) ==
    LET entropyRequired == Required(IF p # Undefined THEN p ELSE _defaultParanoia)
    IN IF _strength # 0 /\ _strength >= entropyRequired
       THEN IF _poolEntropy[1] > _BITS_PER_RESEED /\ now >= _nextReseed
            THEN _REQUIRES_RESEED + _READY
            ELSE _READY
       ELSE IF _poolStrength >= entropyRequired
            THEN _REQUIRES_RESEED + _NOT_READY
            ELSE _NOT_READY

\* isReady(paranoia): the level is the argument unless it is undefined
isReady(p) ==
    LET entropyRequired == Required(IF p # Undefined THEN p ELSE _defaultParanoia)
    IN IF _strength # 0 /\ _strength >= entropyRequired
       THEN IF _poolEntropy[1] > _BITS_PER_RESEED /\ now > _nextReseed
            THEN _REQUIRES_RESEED + _READY
            ELSE _READY
       ELSE IF _poolStrength >= entropyRequired
            THEN _REQUIRES_RESEED + _NOT_READY
            ELSE _NOT_READY

\* getProgress(paranoia): the level is the argument unless it is falsy
getProgress(p) ==
    LET entropyRequired == Required(IF p # Undefined /\ p # 0 THEN p ELSE _defaultParanoia)
    IN IF _strength >= entropyRequired
       THEN One
       ELSE IF _poolStrength > entropyRequired
            THEN One
            ELSE Frac(_poolStrength, entropyRequired)

(* ---------------------------------------------------------------------- *)
(* The generator core (prng.ts 332-360): operators over a working record   *)
(* w with the fields _key, _counter, _cipher                                  *)
(* ---------------------------------------------------------------------- *)
\* the increment without the carry into the next lane
IncrCounter_NoCarry(c, i) == [c EXCEPT ![i] = Inc32(c[i])]

\* for (i = 0; i < 4; i++) { c[i] = c[i] + 1 | 0; if (c[i]) break; }
RECURSIVE IncrCounter(_, _)
IncrCounter(c, i) ==
    IF i > 4 THEN c
    ELSE LET v == Inc32(c[i])
             c2 == [c EXCEPT ![i] = v]
         IN IF v # 0 THEN c2 ELSE IncrCounter(c2, i + 1)

\* _gen4words(): advance the _counter, encrypt it; [] without a _cipher
_gen4words(w) ==
    LET c == IncrCounter(w._counter, 1)
    IN [w |-> [w EXCEPT !._counter = c],
        words |-> IF w._cipher = NoCipher THEN <<>> ELSE Encrypt(w._cipher, c)]

\* a gate that advances the counter but keeps the key
_gate_KeepKey(w) == _gen4words(_gen4words(w).w).w

\* _gate(): rekey with 8 words of own output
_gate(w) ==
    LET g1 == _gen4words(w)
        g2 == _gen4words(g1.w)
        k == g1.words \o g2.words
    IN [g2.w EXCEPT !._key = k, !._cipher = Aes(k)]

\* a reseed that leaves the counter where it was
_reseed_KeepCounter(w, seedWords) ==
    LET k == Sha256(w._key \o seedWords)
    IN [w EXCEPT !._key = k, !._cipher = Aes(k)]

\* _reseed(seedWords)
_reseed(w, seedWords) ==
    LET k == Sha256(w._key \o seedWords)
    IN [w EXCEPT !._key = k, !._cipher = Aes(k),
                 !._counter = IncrCounter(w._counter, 1)]

(* ---------------------------------------------------------------------- *)
(* _reseedFromPools(full) (prng.ts 365-402)                                *)
(* ---------------------------------------------------------------------- *)
\* the pool loop testing the bits of the count after its increment
RECURSIVE PoolLoop_PostIncrement(_, _)
PoolLoop_PostIncrement(i, full) ==
    IF i >= Len(_pools) THEN i
    ELSE IF ~full /\ BitSet(_reseedCount + 1, i) THEN i + 1
    ELSE PoolLoop_PostIncrement(i + 1, full)

\* the pool loop: the number of _pools it consumes, _pools 0 .. result-1
RECURSIVE PoolLoop(_, _)
PoolLoop(i, full) ==
    IF i >= Len(_pools) THEN i
    ELSE IF ~full /\ BitSet(_reseedCount, i) THEN i + 1
    ELSE PoolLoop(i + 1, full)

RECURSIVE Digests(_)
Digests(k) == IF k = 0 THEN <<>> ELSE Digests(k - 1) \o Sha256(_pools[k])

\* the growth test with > for >=
NeedsNewPool_Strict(count, npools) == count > Shl1(npools)

\* "if we used the last pool, push a new one onto the stack"
NeedsNewPool(count, npools) == count >= Shl1(npools)

\* the state after _reseedFromPools(full), rnd being the 16 words drawn
\* from Math.random()
\* the strength a reseed consuming the first k pools collects (prng.ts
\* 379-382): the sum of their entropy counters
ConsumedStrength_FirstPool(entropy, k) == entropy[1]

ConsumedStrength(entropy, k) == SumSeq(SubSeq(entropy, 1, k))

\* if (strength > this._strength) this._strength = strength (prng.ts 396-398)
RaiseStrength_Assign(previous, strength) == strength

RaiseStrength(previous, strength) == IF strength > previous THEN strength ELSE previous

_reseedFromPools(full, rnd) ==
    LET k == PoolLoop(0, full)
        deadline == now + _MILLISECONDS_PER_RESEED
        reseedData == <<deadline>> \o rnd \o Digests(k)
        consumedStrength == ConsumedStrength(_poolEntropy, k)
        grow == NeedsNewPool(_reseedCount, Len(_pools))
        emptied == [i \in 1..Len(_pools) |-> IF i <= k THEN <<>> ELSE _pools[i]]
        zeroed == [i \in 1..Len(_pools) |-> IF i <= k THEN 0 ELSE _poolEntropy[i]]
        w == _reseed([_key |-> _key, _counter |-> _counter, _cipher |-> _cipher], reseedData)
    IN [_pools |-> IF grow THEN Append(emptied, <<>>) ELSE emptied,
        _poolEntropy |-> IF grow THEN Append(zeroed, 0) ELSE zeroed,
        _nextReseed |-> deadline,
        _poolStrength |-> _poolStrength - consumedStrength,
        _strength |-> RaiseStrength(_strength, consumedStrength),
        _reseedCount |-> _reseedCount + 1,
        _key |-> w._key, _counter |-> w._counter, _cipher |-> w._cipher,
        consumed |-> 0..(k - 1), grew |-> grow]

\* the state when no reseed is performed
NoReseed ==
    [_pools |-> _pools, _poolEntropy |-> _poolEntropy, _nextReseed |-> _nextReseed,
     _poolStrength |-> _poolStrength, _strength |-> _strength,
     _reseedCount |-> _reseedCount, _key |-> _key, _counter |-> _counter,
     _cipher |-> _cipher, consumed |-> {}, grew |-> FALSE]

(* ---------------------------------------------------------------------- *)
(* randomWords(nwords, paranoia) (prng.ts 92-112)                          *)
(* ---------------------------------------------------------------------- *)
\* (i + 1) % this._MAX_WORDS_PER_BURST === 0
BurstBoundary(i) == (i + 1) % _MAX_WORDS_PER_BURST = 0

\* the body of the generation loop at index i; w also carries the output so
\* far, the number of blocks generated and the number of gates performed
GenStep(w, i) ==
    LET w1 == IF BurstBoundary(i)
              THEN [_gate(w) EXCEPT !.gates = w.gates + 1,
                                   !.steps = Append(w.steps, "gate")]
              ELSE w
        g == _gen4words(w1)
    IN [g.w EXCEPT !.out = w1.out \o g.words,
                   !.blocks = w1.blocks + 1,
                   !.steps = Append(w1.steps, "gen")]

\* the generation loop, for (i = 0; i < nwords; i += 4), over its iterations
\* lo .. hi - 1 (iteration k has i = 4 * k).  The range is halved and the
\* output of each half collected apart, so that the evaluation of a long
\* request stays shallow and copies each word a few times only
RECURSIVE GenLoop(_, _, _)
GenLoop(w, lo, hi) ==
    IF hi <= lo THEN w
    ELSE IF hi = lo + 1 THEN GenStep(w, 4 * lo)
    ELSE LET mid == (lo + hi) \div 2
             half == GenLoop([w EXCEPT !.out = <<>>, !.steps = <<>>], lo, mid)
             rest == GenLoop([half EXCEPT !.out = <<>>, !.steps = <<>>], mid, hi)
         IN IF half.blocks > w.blocks
            THEN [rest EXCEPT !.out = w.out \o half.out \o rest.out,
                              !.steps = w.steps \o half.steps \o rest.steps]
            ELSE half

\* the number of iterations of the loop: the i = 0, 4, 8, ... below nwords
Iterations(nwords) == IF nwords <= 0 THEN 0 ELSE (nwords + 3) \div 4

\* the slice keeping every generated word
SliceTo_All(out, nwords) == out

\* out.slice(0, nwords) for nwords >= 0
SliceTo(out, nwords) == SubSeq(out, 1, IF nwords < Len(out) THEN nwords ELSE Len(out))

\* the 16 words of Math.random() a reseed draws
RndChoices == {<<0, 0, 0, 0, 0, 0, 0, 0, 0, 0, 0, 0, 0, 0, 0, 0>>,
               <<1, 0, 0, 0, 0, 0, 0, 0, 0, 0, 0, 0, 0, 0, 0, 0>>}

\* the reseed is full whatever the readiness
ReseedIsFull_Always(readiness) == TRUE

\* !(readiness & this._READY): the argument of _reseedFromPools
ReseedIsFull(readiness) == ~HasFlag(readiness, _READY)

\* the state a successful call leaves and what it did: the reseed the
\* readiness asks for, the generation loop, the final gate, the slice
Generate(nwords, paranoia, readiness, rnd) ==
    LET doReseed == HasFlag(readiness, _REQUIRES_RESEED)
        full == ReseedIsFull(readiness)
        r == IF doReseed THEN _reseedFromPools(full, rnd) ELSE NoReseed
        w0 == [_key |-> r._key, _counter |-> r._counter, _cipher |-> r._cipher,
               out |-> <<>>, blocks |-> 0, gates |-> 0,
               steps |-> IF doReseed THEN <<"reseed">> ELSE <<>>]
        w1 == GenLoop(w0, 0, Iterations(nwords))
        w2 == [_gate(w1) EXCEPT !.gates = w1.gates + 1,
                               !.steps = Append(w1.steps, "gate")]
    IN [r |-> r, w |-> w2,
        call |-> [NoCall EXCEPT
                    !.op = "randomWords", !.p = paranoia, !.n = nwords,
                    !.result = "ok", !.oldReady = readiness,
                    !.reseed = IF ~doReseed THEN "none"
                               ELSE IF full THEN "full" ELSE "partial",
                    !.consumed = r.consumed, !.grew = r.grew,
                    !.blocks = w2.blocks, !.gates = w2.gates,
                    !.steps = w2.steps,
                    !.keyed = r._cipher # NoCipher,
                    !.genKey = r._key, !.genCounter = r._counter,
                    !.lastKey = w1._key, !.lastCounter = w1._counter,
                    !.rnd = IF doReseed THEN rnd ELSE <<>>,
                    !.out = SliceTo(w2.out, nwords)]]

\* the call never throws
ThrowsNotReady_Never(readiness) == FALSE

\* the call throws unless the _READY flag is set
ThrowsNotReady_UnlessReadyFlag(readiness) == ~HasFlag(readiness, _READY)

\* readiness === this._NOT_READY: the call throws notReady
ThrowsNotReady(readiness) == readiness = _NOT_READY

randomWords(nwords, paranoia) ==
    /\ UNCHANGED <<srcVars, _defaultParanoia, now, fired, cbVars>>
    /\ IF ThrowsNotReady(isReady(paranoia))
       THEN /\ UNCHANGED genVars
            /\ call' = [NoCall EXCEPT !.op = "randomWords", !.p = paranoia,
                                      !.n = nwords, !.result = "notReady"]
       ELSE \E rnd \in RndChoices :
            \E g \in {Generate(nwords, paranoia, isReady(paranoia), rnd)} :
               /\ _pools' = g.r._pools
               /\ _poolEntropy' = g.r._poolEntropy
               /\ _reseedCount' = g.r._reseedCount
               /\ _strength' = g.r._strength
               /\ _poolStrength' = g.r._poolStrength
               /\ _nextReseed' = g.r._nextReseed
               /\ _key' = g.w._key
               /\ _counter' = g.w._counter
               /\ _cipher' = g.w._cipher
               /\ call' = g.call

(* ---------------------------------------------------------------------- *)
(* A direct call of _reseedFromPools(full), as the reseed schedule test     *)
(* makes it                                                                 *)
(* ---------------------------------------------------------------------- *)
DirectReseed(full) ==
    /\ UNCHANGED <<srcVars, _defaultParanoia, now, fired, cbVars>>
    /\ \E rnd \in RndChoices :
       \E r \in {_reseedFromPools(full, rnd)} :
          /\ _pools' = r._pools
          /\ _poolEntropy' = r._poolEntropy
          /\ _reseedCount' = r._reseedCount
          /\ _strength' = r._strength
          /\ _poolStrength' = r._poolStrength
          /\ _nextReseed' = r._nextReseed
          /\ _key' = r._key
          /\ _counter' = r._counter
          /\ _cipher' = r._cipher
          /\ call' = [NoCall EXCEPT
                        !.op = "reseedFromPools",
                        !.reseed = IF full THEN "full" ELSE "partial",
                        !.consumed = r.consumed, !.grew = r.grew,
                        !.steps = <<"reseed">>, !.keyed = TRUE]

(* ---------------------------------------------------------------------- *)
(* setDefaultParanoia(paranoia, allowZeroParanoia) (prng.ts 114-119)       *)
(* ---------------------------------------------------------------------- *)
\* setDefaultParanoia without the test of the confirmation phrase
setDefaultParanoia_NoCheck(paranoia, allowZeroParanoia) ==
    /\ UNCHANGED <<genVars, srcVars, now, fired, cbVars>>
    /\ _defaultParanoia' = paranoia
    /\ call' = [NoCall EXCEPT !.op = "setDefaultParanoia", !.p = paranoia,
                              !.phrase = allowZeroParanoia]

setDefaultParanoia(paranoia, allowZeroParanoia) ==
    /\ UNCHANGED <<genVars, srcVars, now, fired, cbVars>>
    /\ IF paranoia = 0 /\ allowZeroParanoia # ZeroParanoiaPhrase
       THEN /\ UNCHANGED _defaultParanoia
            /\ call' = [NoCall EXCEPT !.op = "setDefaultParanoia", !.p = paranoia,
                                      !.phrase = allowZeroParanoia,
                                      !.result = "thrown"]
       ELSE /\ _defaultParanoia' = paranoia
            /\ call' = [NoCall EXCEPT !.op = "setDefaultParanoia", !.p = paranoia,
                                      !.phrase = allowZeroParanoia]

(* ---------------------------------------------------------------------- *)
(* The clock read by (new Date()).valueOf()                                *)
(* ---------------------------------------------------------------------- *)
Tick(d, limit) ==
    /\ now + d <= limit
    /\ now' = now + d
    /\ call' = [NoCall EXCEPT !.op = "tick"]
    /\ UNCHANGED <<genVars, srcVars, _defaultParanoia, fired, cbVars>>

(* ---------------------------------------------------------------------- *)
(* addEntropy(data, estimatedEntropy, source) (prng.ts 127-218)            *)
(* ---------------------------------------------------------------------- *)
\* A datum is [type, val, numeric]: type is what typeof and
\* Object.prototype.toString tell apart, val its numbers (the value of a
\* number, the elements of an array, the character codes of a string),
\* numeric whether every element is a number.  null, which typeof calls
\* "object" and Object.prototype.toString "[object Null]", has the type
\* "null"; the type "object" is any other object that is not an array.
DNumber == [type |-> "number", val |-> <<5>>, numeric |-> TRUE]

DArray == [type |-> "array", val |-> <<3, 1>>, numeric |-> TRUE]

DUint32Array == [type |-> "uint32array", val |-> <<2>>, numeric |-> TRUE]

DString == [type |-> "string", val |-> <<97, 98>>, numeric |-> FALSE]

DArrayOfText == [type |-> "array", val |-> <<0>>, numeric |-> FALSE]

DObject == [type |-> "object", val |-> <<>>, numeric |-> FALSE]

DNull == [type |-> "null", val |-> <<>>, numeric |-> FALSE]

DBoolean == [type |-> "boolean", val |-> <<>>, numeric |-> FALSE]

\* while (tmp > 0) { estimatedEntropy++; tmp = tmp >>> 1; }
RECURSIVE BitCount(_)
BitCount(x) == IF x > 0 THEN 1 + BitCount(x \div 2) ELSE 0

RECURSIVE ArrayEstimate(_)
ArrayEstimate(a) == IF a = <<>> THEN 0 ELSE BitCount(Head(a)) + ArrayEstimate(Tail(a))

\* err after the switch on typeof(data)
DataErr(data) ==
    CASE data.type = "number" -> FALSE
      [] data.type = "uint32array" -> FALSE
      [] data.type = "array" -> ~data.numeric
      [] data.type \in {"object", "null"} -> TRUE
      [] data.type = "string" -> FALSE
      [] OTHER -> TRUE

\* for (i = 0; i < data.length && !err; i++): the loop header of the case
\* "object" reads data.length before it looks at err, and on null the read
\* throws a TypeError, so that the throw of the bug exception is not reached
LengthThrows(data) == data.type = "null"

\* estimatedEntropy after the defaulting of an undefined argument
Estimate(data, estimatedEntropy) ==
    IF estimatedEntropy # Undefined THEN estimatedEntropy
    ELSE CASE data.type = "number" -> 1
           [] data.type \in {"array", "uint32array"} -> ArrayEstimate(data.val)
           [] data.type = "string" -> Len(data.val)
           [] OTHER -> 0

\* what the accumulator absorbs: the tagged record, and for a string its
\* content after the header
Absorbed(data, id, evId, est, t) ==
    CASE data.type = "number" -> <<id, evId, 1, est, t, 1, ToInt32(data.val[1])>>
      [] data.type \in {"array", "uint32array"} ->
             <<id, evId, 2, est, t, Len(data.val)>> \o data.val
      [] data.type = "string" -> <<id, evId, 3, est, t, Len(data.val)>> \o data.val
      [] OTHER -> <<>>

(* ---------------------------------------------------------------------- *)
(* The event mechanism (prng.ts 296-320, 465-482).  A registry is a record *)
(* w with the fields cbs (per channel the set of <<key, callback>>         *)
(* entries), i (the next key) and log (the calls made, in order).          *)
(* ---------------------------------------------------------------------- *)
Channels == {"progress", "seeded"}

\* the listeners a client registers: one that does nothing, one that
\* registers the listener "late" on the channel it is called for, one that
\* removes the listener "plain" from it
Callbacks == {"plain", "adder", "remover"}

\* this._callbacks[name][this._callbackI++] = callback
AddTo(w, name, callback) ==
    [w EXCEPT !.cbs[name] = @ \cup {<<w.i, callback>>}, !.i = w.i + 1]

\* delete every entry of the channel whose callback is cb
RemoveFrom(w, name, cb) ==
    [w EXCEPT !.cbs[name] = {e \in @ : e[2] # cb}]

\* for (j in cbs): the entries by ascending key
RECURSIVE InKeyOrder(_)
InKeyOrder(entries) ==
    IF entries = {} THEN <<>>
    ELSE LET first == CHOOSE e \in entries : \A f \in entries : e[1] <= f[1]
         IN <<first>> \o InKeyOrder(entries \ {first})

\* cbsTemp[j](arg): the call is logged and the listener does what it does
Invoke(w, name, callback, arg) ==
    LET logged == [w EXCEPT !.log = Append(@, [name |-> name, cb |-> callback,
                                                arg |-> arg])]
    IN CASE callback = "adder" -> AddTo(logged, name, "late")
         [] callback = "remover" -> RemoveFrom(logged, name, "plain")
         [] OTHER -> logged

RECURSIVE CallAll(_, _, _, _)
CallAll(w, name, entries, arg) ==
    IF entries = <<>> THEN w
    ELSE CallAll(Invoke(w, name, Head(entries)[2], arg), name, Tail(entries), arg)

\* a walk over the registry itself, by ascending key, while the listeners
\* change it
RECURSIVE LiveWalk(_, _, _, _)
LiveWalk(w, name, arg, lastKey) ==
    LET left == {e \in w.cbs[name] : e[1] > lastKey}
        next == InKeyOrder(left)[1]
    IN IF left = {} THEN w
       ELSE LiveWalk(Invoke(w, name, next[2], arg), name, arg, next[1])

\* a delivery without the copy of the entries
_fireEvent_Live(w, name, arg) == LiveWalk(w, name, arg, 0 - 1)

\* _fireEvent(name, arg): the entries are copied, then each copy is called
_fireEvent(w, name, arg) == CallAll(w, name, InKeyOrder(w.cbs[name]), arg)

\* the deliveries of one addEntropy call: seeded, then progress
FireEvents(seededArgs, progressArgs) ==
    LET w0 == [cbs |-> IF random.self THEN _callbacks ELSE random._callbacks,
               i |-> IF random.self THEN _callbackI ELSE random._callbackI,
               log |-> <<>>]
        w1 == IF seededArgs # <<>> THEN _fireEvent(w0, "seeded", seededArgs[1]) ELSE w0
    IN IF progressArgs # <<>> THEN _fireEvent(w1, "progress", progressArgs[1]) ELSE w1

\* addEventListener(name, callback)
addEventListener(name, callback) ==
    /\ \E w \in {AddTo([cbs |-> _callbacks, i |-> _callbackI, log |-> <<>>],
                        name, callback)} :
          _callbacks' = w.cbs /\ _callbackI' = w.i
    /\ call' = [NoCall EXCEPT !.op = "addEventListener"]
    /\ UNCHANGED <<genVars, srcVars, _defaultParanoia, now, fired>>

\* removeEventListener(name, cb)
removeEventListener(name, cb) ==
    /\ \E w \in {RemoveFrom([cbs |-> _callbacks, i |-> _callbackI, log |-> <<>>],
                             name, cb)} :
          _callbacks' = w.cbs /\ _callbackI' = w.i
    /\ call' = [NoCall EXCEPT !.op = "removeEventListener"]
    /\ UNCHANGED <<genVars, srcVars, _defaultParanoia, now, fired>>

\* the events addEntropy fires, in order, as <<name, argument>> pairs kept
\* in two sequences: oldReady is isReady() on entry, newReady is isReady()
\* after the _strength was recorded, s and ps the strengths at that point,
\* progress the value of getProgress() at that point
SeededArgs_IgnoreOld(oldReady, newReady, s, ps) ==
    IF newReady # _NOT_READY THEN <<Max(s, ps)>> ELSE <<>>

SeededArgs_StrengthOnly(oldReady, newReady, s, ps) ==
    IF oldReady = _NOT_READY /\ newReady # _NOT_READY THEN <<s>> ELSE <<>>

SeededArgs(oldReady, newReady, s, ps) ==
    IF oldReady = _NOT_READY /\ newReady # _NOT_READY THEN <<Max(s, ps)>> ELSE <<>>

ProgressArgs(oldReady, progress) ==
    IF oldReady = _NOT_READY THEN <<progress>> ELSE <<>>

EventOrder_ProgressFirst(seededArgs, progressArgs) ==
    (IF progressArgs # <<>> THEN <<"progress">> ELSE <<>>)
        \o (IF seededArgs # <<>> THEN <<"seeded">> ELSE <<>>)

EventOrder(seededArgs, progressArgs) ==
    (IF seededArgs # <<>> THEN <<"seeded">> ELSE <<>>)
        \o (IF progressArgs # <<>> THEN <<"progress">> ELSE <<>>)

\* (this._robins[source] + 1) % this._pools.length
NextRobin(robin, npools) == (robin + 1) % npools

addEntropy(data, estimatedEntropy, sourceArg) ==
    \E source \in {IF sourceArg = "" THEN "user" ELSE sourceArg} :
    \E oldReady \in {isReady(Undefined)} :
    \E id \in {IF _collectorIds[source] # Undefined
               THEN _collectorIds[source] ELSE _collectorIdNext} :
    \E robin \in {IF _robins[source] = Undefined THEN 0 ELSE _robins[source]} :
    \E est \in {Estimate(data, estimatedEntropy)} :
       /\ _collectorIdNext' = IF _collectorIds[source] # Undefined
                             THEN _collectorIdNext ELSE _collectorIdNext + 1
       /\ _collectorIds' = [_collectorIds EXCEPT ![source] = id]
       /\ _robins' = [_robins EXCEPT ![source] = NextRobin(robin, Len(_pools))]
       /\ UNCHANGED <<_reseedCount, _strength, _nextReseed, _key, _counter, _cipher,
                      _defaultParanoia, now>>
       /\ IF DataErr(data)
          THEN /\ UNCHANGED <<_pools, _poolEntropy, _poolStrength, _eventId, fired,
                              cbVars, random>>
               /\ call' = [NoCall EXCEPT !.op = "addEntropy",
                                         !.result = IF LengthThrows(data)
                                                    THEN "typeError" ELSE "bug",
                                         !.oldReady = oldReady, !.robin = robin,
                                         !.source = source]
          ELSE /\ _pools' = [_pools EXCEPT ![robin + 1] =
                               @ \o Absorbed(data, id, _eventId, est, now)]
               /\ _eventId' = _eventId + 1
               /\ _poolEntropy' = [_poolEntropy EXCEPT ![robin + 1] = @ + est]
               /\ _poolStrength' = _poolStrength + est
               /\ \E sa \in {SeededArgs(oldReady, isReady(Undefined)',
                                        _strength', _poolStrength')} :
                  \E pa \in {ProgressArgs(oldReady, getProgress(Undefined)')} :
                  \E w \in {FireEvents(sa, pa)} :
                     /\ _callbacks' = IF random.self THEN w.cbs ELSE _callbacks
                     /\ _callbackI' = IF random.self THEN w.i ELSE _callbackI
                     /\ random' = IF random.self THEN random
                                  ELSE [random EXCEPT !._callbacks = w.cbs,
                                                      !._callbackI = w.i]
                     /\ call' = [NoCall EXCEPT
                            !.op = "addEntropy", !.oldReady = oldReady,
                            !.robin = robin, !.source = source, !.est = est,
                            !.seeded = sa, !.progress = pa,
                            !.order = EventOrder(sa, pa),
                            !.delivered = w.log]
                     /\ fired' = [seeded |-> fired.seeded + Len(sa),
                                  progress |-> fired.progress + Len(pa)]

(* ---------------------------------------------------------------------- *)
(* Construction: new prng(6) (prng.ts 51-86, 486)                          *)
(* ---------------------------------------------------------------------- *)
Init ==
    /\ _pools = <<<<>>>>
    /\ _poolEntropy = <<0>>
    /\ _reseedCount = 0
    /\ _robins = [s \in AllSources |-> Undefined]
    /\ _eventId = 0
    /\ _collectorIds = [s \in AllSources |-> Undefined]
    /\ _collectorIdNext = 0
    /\ _strength = 0
    /\ _poolStrength = 0
    /\ _nextReseed = 0
    /\ _key = <<0, 0, 0, 0, 0, 0, 0, 0>>
    /\ _counter = <<0, 0, 0, 0>>
    /\ _cipher = NoCipher
    /\ _defaultParanoia = InitialParanoia
    /\ now = StartTime
    /\ call = NoCall
    /\ fired = [seeded |-> 0, progress |-> 0]
    /\ _callbacks = [progress |-> {}, seeded |-> {}]
    /\ _callbackI = 0
    /\ twin = NoTwin
    /\ random = ThisIsRandom

(* ---------------------------------------------------------------------- *)
(* Specifications                                                          *)
(* ---------------------------------------------------------------------- *)
\* the calls are explored while the counters stay within the bounds
CanAdd(limit) == _eventId < limit

CanDraw(maxReseeds, maxCounter) ==
    /\ _counter[1] < maxCounter
    /\ _reseedCount < maxReseeds

DataInputs == {DNumber, DObject, DNull}

EstimateInputs == {Undefined, 100}

SourceInputs == {""}

WordCounts == {0, 5}

ParanoiaInputs == {Undefined, 0, 1}

PhraseInputs == {"", ZeroParanoiaPhrase}

TickSteps == {_MILLISECONDS_PER_RESEED, _MILLISECONDS_PER_RESEED + 1}

DoAddEntropy ==
    \E data \in DataInputs, e \in EstimateInputs, s \in SourceInputs :
        /\ CanAdd(MaxEvents)
        /\ addEntropy(data, e, s)
        /\ UNCHANGED <<twin, random>>

DoRandomWords ==
    \E n \in WordCounts, p \in ParanoiaInputs :
        /\ CanDraw(MaxReseeds, MaxCounter)
        /\ randomWords(n, p)
        /\ UNCHANGED <<twin, random>>

DoSetDefaultParanoia ==
    \E p \in {0, 1}, phrase \in PhraseInputs :
        /\ setDefaultParanoia(p, phrase)
        /\ UNCHANGED <<twin, random>>

DoTick ==
    \E d \in TickSteps :
        /\ Tick(d, MaxTime)
        /\ UNCHANGED <<twin, random>>

Next == DoAddEntropy \/ DoRandomWords \/ DoSetDefaultParanoia \/ DoTick

Spec == Init /\ [][Next]_vars

\* One source feeding 48 estimated bits per call into a fresh generator
FeedData == {DNumber, DString}

FeedEstimates == {48}

DoFeed ==
    \E data \in FeedData, e \in FeedEstimates :
        /\ CanAdd(FeedEvents)
        /\ addEntropy(data, e, "")
        /\ UNCHANGED <<twin, random>>

DoFeedTick ==
    \E d \in TickSteps :
        /\ Tick(d, MaxTime)
        /\ UNCHANGED <<twin, random>>

NextFeed == DoFeed \/ DoFeedTick

SpecFeed == Init /\ [][NextFeed]_vars

\* The reseed schedule: entropy from one source and direct reseeds
SchedEstimates == {1, 3}

DoSchedAdd ==
    \E e \in SchedEstimates :
        /\ CanAdd(SchedEvents)
        /\ addEntropy(DNumber, e, "")
        /\ UNCHANGED <<twin, random>>

DoSchedReseed ==
    \E full \in BOOLEAN :
        /\ _reseedCount < SchedReseeds
        /\ DirectReseed(full)
        /\ UNCHANGED <<twin, random>>

NextSched == DoSchedAdd \/ DoSchedReseed

SpecSched == Init /\ [][NextSched]_vars

\* The counter near its lane boundaries: a generator that was fed 100 bits
\* by one addEntropy call and keyed by a first randomWords(0, 1), met at a
\* later point of its life, when the plain draws that followed have brought
\* the counter next to a carry
CounterLane0 == {0 - 1, 0 - 2, 0 - 4, MaxInt32, MaxInt32 - 2}

CounterUpper == {<<0, 0, 0>>, <<0 - 1, 0, 0>>, <<0 - 1, 0 - 1, 0>>,
                 <<0 - 1, 0 - 1, 0 - 1>>, <<MaxInt32, 0, 0>>,
                 <<0 - 1, MaxInt32, 0 - 1>>}

CounterStarts == {<<l>> \o u : l \in CounterLane0, u \in CounterUpper}

\* the keys a gate leaves when its two blocks are made at two successive
\* counters within a lane: the 8 words of the two blocks under one key
CounterKeys == {<<1, 2, 0, 1, 0, 1, 2, 0>>, <<2, 0, 1, 2, 1, 2, 0, 1>>,
                <<0, 1, 2, 0, 2, 0, 1, 2>>}

\* the generator two blocks before the counter c, keyed with k; lane 0 of c
\* is at least 2 away from 0 and from -2^31
TwoBlocksBefore(k, c) ==
    [_key |-> k, _counter |-> [c EXCEPT ![1] = @ - 2], _cipher |-> Aes(k)]

InitCounter ==
    /\ _pools = <<<<>>>>
    /\ _poolEntropy = <<0>>
    /\ _reseedCount = 1
    /\ _robins = [s \in AllSources |-> IF s = "user" THEN 0 ELSE Undefined]
    /\ _eventId = 1
    /\ _collectorIds = [s \in AllSources |-> IF s = "user" THEN 0 ELSE Undefined]
    /\ _collectorIdNext = 1
    /\ _strength = 100
    /\ _poolStrength = 0
    /\ _nextReseed = StartTime + _MILLISECONDS_PER_RESEED
    /\ _counter \in CounterStarts
    /\ _key \in {_gate(TwoBlocksBefore(k, _counter))._key : k \in CounterKeys}
    /\ _cipher = Aes(_key)
    /\ _defaultParanoia = InitialParanoia
    /\ now = StartTime
    /\ call = NoCall
    /\ fired = [seeded |-> 0, progress |-> 1]
    /\ _callbacks = [progress |-> {}, seeded |-> {}]
    /\ _callbackI = 0
    /\ twin = NoTwin
    /\ random = ThisIsRandom

\* the draws are explored while lane 0 is within MaxSpan of a wrap
NearWrap(span) ==
    \/ _counter[1] \in (0 - span)..(0 - 1)
    \/ _counter[1] > MaxInt32 - span

CounterWords == {0, 4, 5}

DoCounterDraw ==
    \E n \in CounterWords, p \in {1, Undefined} :
        /\ NearWrap(MaxSpan)
        /\ _reseedCount < CounterReseeds
        /\ randomWords(n, p)
        /\ UNCHANGED <<twin, random>>

DoCounterAdd ==
    /\ CanAdd(CounterEvents)
    /\ addEntropy(DNumber, 100, "")
    /\ UNCHANGED <<twin, random>>

DoCounterTick ==
    \E d \in TickSteps :
        /\ Tick(d, MaxTime)
        /\ UNCHANGED <<twin, random>>

NextCounter == DoCounterDraw \/ DoCounterAdd \/ DoCounterTick

SpecCounter == InitCounter /\ [][NextCounter]_vars

\* Requests longer than one burst, as the first draw of a generator
BurstEstimates == {100, 300}

BurstWords == {5, _MAX_WORDS_PER_BURST + 4}

DoBurstAdd ==
    \E e \in BurstEstimates :
        /\ CanAdd(BurstEvents)
        /\ addEntropy(DNumber, e, "")
        /\ UNCHANGED <<twin, random>>

DoBurstDraw ==
    \E n \in BurstWords :
        /\ _reseedCount < BurstReseeds
        /\ randomWords(n, 1)
        /\ UNCHANGED <<twin, random>>

DoBurstTick ==
    \E d \in TickSteps :
        /\ Tick(d, MaxTime)
        /\ UNCHANGED <<twin, random>>

NextBurst == DoBurstAdd \/ DoBurstDraw \/ DoBurstTick

SpecBurst == Init /\ [][NextBurst]_vars

\* Round-robin: two sources feeding arrays, and at times an unsupported
\* datum, while the pool list grows
RobinSources == {"", "mouse"}

RobinData == {DArray, DArrayOfText}

\* the call as its caller sees it: the source, the number of pools at the
\* call, and the pool whose accumulator the call updated (Undefined when
\* it updated none)
RecordedAdd ==
    LET updated == {i \in 1..Len(_pools) : _pools'[i] # _pools[i]}
    IN [source |-> call'.source, result |-> call'.result, n |-> Len(_pools),
        pool |-> IF updated = {} THEN Undefined
                 ELSE (CHOOSE i \in updated : TRUE) - 1]

DoRobinAdd ==
    \E data \in RobinData, s \in RobinSources :
        /\ Len(twin.script) < RobinEvents
        /\ addEntropy(data, Undefined, s)
        /\ twin' = [twin EXCEPT !.script = Append(@, RecordedAdd)]
        /\ UNCHANGED random

DoRobinReseed ==
    /\ _reseedCount < RobinReseeds
    /\ DirectReseed(TRUE)
    /\ UNCHANGED <<twin, random>>

NextRobinSpec == DoRobinAdd \/ DoRobinReseed

SpecRobin == Init /\ [][NextRobinSpec]_vars

\* Listeners registered and removed by the client and by other listeners
\* while entropy arrives
ListenerEstimates == {100, 300}

DoAddListener ==
    \E name \in Channels, cb \in Callbacks :
        /\ _callbackI < MaxListeners
        /\ addEventListener(name, cb)
        /\ UNCHANGED <<twin, random>>

DoRemoveListener ==
    \E name \in Channels, cb \in Callbacks :
        /\ removeEventListener(name, cb)
        /\ UNCHANGED <<twin, random>>

DoListenerAdd ==
    \E e \in ListenerEstimates :
        /\ CanAdd(ListenerEvents)
        /\ addEntropy(DNumber, e, "")
        /\ UNCHANGED <<twin, random>>

NextListeners == DoAddListener \/ DoRemoveListener \/ DoListenerAdd

SpecListeners == Init /\ [][NextListeners]_vars

\* Two instances given the same calls.  The calls on the first instance are
\* recorded with their arguments, the clock reading, the Math.random()
\* words drawn (none when the call did not reseed) and the result of each;
\* a second instance is then constructed and given the same calls in the
\* same order, at clock readings and with Math.random() words that may or
\* may not be those of the first.
Recorded(op, arg) == [op |-> op, arg |-> arg, now |-> now, rnd |-> call'.rnd,
                      result |-> call'.result, out |-> call'.out]

Record(op, arg) == twin' = [twin EXCEPT !.script = Append(@, Recorded(op, arg))]

Replay(op, arg) == twin' = [twin EXCEPT !.replay = Append(@, Recorded(op, arg))]

\* new prng(6), beside the generator modelled so far: from here on the
\* generator modelled is the new instance, with the fields of a fresh
\* instance and its own empty listener registry; the exported `random`
\* stays the instance it was, with its registry.  The constructor reads no
\* clock
Construct ==
    /\ _pools' = <<<<>>>>
    /\ _poolEntropy' = <<0>>
    /\ _reseedCount' = 0
    /\ _strength' = 0
    /\ _poolStrength' = 0
    /\ _nextReseed' = 0
    /\ _key' = <<0, 0, 0, 0, 0, 0, 0, 0>>
    /\ _counter' = <<0, 0, 0, 0>>
    /\ _cipher' = NoCipher
    /\ _robins' = [s \in AllSources |-> Undefined]
    /\ _eventId' = 0
    /\ _collectorIds' = [s \in AllSources |-> Undefined]
    /\ _collectorIdNext' = 0
    /\ _defaultParanoia' = InitialParanoia
    /\ UNCHANGED now
    /\ call' = [NoCall EXCEPT !.op = "construct"]
    /\ fired' = [seeded |-> 0, progress |-> 0]
    /\ _callbacks' = [progress |-> {}, seeded |-> {}]
    /\ _callbackI' = 0
    /\ random' = IF random.self
                 THEN [self |-> FALSE, _callbacks |-> _callbacks,
                       _callbackI |-> _callbackI]
                 ELSE random

\* the addEntropy calls made: a number from the default source and an
\* array from the source "mouse", with their estimates
TwinAdds == {[data |-> DNumber, est |-> 100, source |-> ""],
             [data |-> DArray, est |-> 50, source |-> "mouse"]}

\* the randomWords calls made: word counts within one block and across
\* two, at the levels 1 and 2
TwinDraws == {[n |-> 5, p |-> 1], [n |-> 1, p |-> 2]}

DoTwinAdd ==
    \E a \in TwinAdds :
        /\ twin.phase = 1
        /\ Len(twin.script) < TwinCalls
        /\ addEntropy(a.data, a.est, a.source)
        /\ Record("addEntropy", a)

DoTwinDraw ==
    \E d \in TwinDraws :
        /\ twin.phase = 1
        /\ Len(twin.script) < TwinCalls
        /\ randomWords(d.n, d.p)
        /\ Record("randomWords", d)
        /\ UNCHANGED random

\* the clock advances between the calls; while the second instance is
\* given the calls, up to a call of the script made at a later reading
DoTwinTick ==
    \E d \in TickSteps :
        /\ twin.phase = 2 =>
              /\ Len(twin.replay) < Len(twin.script)
              /\ now < twin.script[Len(twin.replay) + 1].now
        /\ Tick(d, MaxTime)
        /\ UNCHANGED <<twin, random>>

DoTwinConstruct ==
    /\ twin.phase = 1
    /\ twin.script # <<>>
    /\ Construct
    /\ twin' = [twin EXCEPT !.phase = 2]

\* the host's clock set back to the reading at which the first instance
\* was made, before the second instance is given its first call
DoTwinSetClock ==
    /\ twin.phase = 2
    /\ twin.replay = <<>>
    /\ now > StartTime
    /\ now' = StartTime
    /\ call' = [NoCall EXCEPT !.op = "tick"]
    /\ UNCHANGED <<genVars, srcVars, _defaultParanoia, fired, cbVars, twin, random>>

DoTwinReplayAdd ==
    /\ twin.phase = 2
    /\ Len(twin.replay) < Len(twin.script)
    /\ \E e \in {twin.script[Len(twin.replay) + 1]} :
          /\ e.op = "addEntropy"
          /\ addEntropy(e.arg.data, e.arg.est, e.arg.source)
          /\ Replay("addEntropy", e.arg)

DoTwinReplayDraw ==
    /\ twin.phase = 2
    /\ Len(twin.replay) < Len(twin.script)
    /\ \E e \in {twin.script[Len(twin.replay) + 1]} :
          /\ e.op = "randomWords"
          /\ randomWords(e.arg.n, e.arg.p)
          /\ Replay("randomWords", e.arg)
          /\ UNCHANGED random

NextTwin ==
    \/ DoTwinAdd \/ DoTwinDraw \/ DoTwinTick \/ DoTwinConstruct \/ DoTwinSetClock
    \/ DoTwinReplayAdd \/ DoTwinReplayDraw

SpecTwin == Init /\ [][NextTwin]_vars

(* ---------------------------------------------------------------------- *)
(* Properties                                                              *)
(* ---------------------------------------------------------------------- *)
\* the level a call with paranoia argument p is judged at
LevelOf(p) == IF p # Undefined THEN p ELSE _defaultParanoia

\* addEntropy was never called: every call, failing or not, registers its
\* source in the collector-id table
NeverFed == _collectorIdNext = 0

DrewWords == call.op = "randomWords" /\ call.result = "ok"

\* C1: under-seeded output is impossible.  A randomWords(n, p) call that
\* generates blocks does so with a keyed _cipher, after at least one
\* completed reseed, and with _strength >= table[p].
C1_NoUnderSeededOutput ==
    DrewWords =>
        /\ call.keyed
        /\ _reseedCount >= 1
        /\ _strength >= Required(LevelOf(call.p))

C1_Witness ==
    /\ DrewWords
    /\ call.blocks = 2
    /\ call.p = 1
    /\ call.reseed = "full"

\* C2 as stated: on a generator never fed, randomWords(n, p) fails with
\* notReady at every level p of the table, 0 included.
C2_FailsAtEveryLevel ==
    (call.op = "randomWords" /\ NeverFed /\ call.p \in Levels)
        => call.result = "notReady"

\* C2 amended: on a generator never fed, randomWords(n, p) fails with
\* notReady at every level 1..10 and returns nothing; at level 0 it succeeds.
C2_FailsAboveLevelZero ==
    /\ NeverFed => \A p \in 1..10 : isReady(p) = _NOT_READY
    /\ (call.op = "randomWords" /\ NeverFed /\ call.p \in Levels) =>
          IF call.p = 0
          THEN call.result = "ok"
          ELSE call.result = "notReady" /\ call.out = <<>>

C2_Witness ==
    /\ call.op = "randomWords"
    /\ NeverFed
    /\ call.p = 1
    /\ call.result = "notReady"

\* C3: randomWords(n, p) fails with notReady exactly when isReady(p) is
\* _NOT_READY with no flag set; a failing call returns no words and leaves
\* the generator state unchanged.
C3_NotReadyIffAndNoEffect ==
    [][call'.op = "randomWords" =>
          /\ (call'.result = "notReady") <=> (isReady(call'.p) = _NOT_READY)
          /\ call'.result = "notReady" =>
                /\ call'.out = <<>>
                /\ UNCHANGED <<_key, _counter, _cipher, _pools, _poolEntropy, _strength,
                               _poolStrength, _reseedCount, _nextReseed>>
                /\ UNCHANGED <<srcVars, _defaultParanoia, fired>>]_vars

C3_Witness ==
    /\ call.op = "randomWords"
    /\ call.result = "notReady"
    /\ _poolStrength > 0
    /\ _reseedCount > 0

\* the readiness rule as the specification words it
SpecifiedReady(level) ==
    IF _strength >= Required(level)
    THEN _READY + (IF _poolEntropy[1] > 80 /\ now > _nextReseed THEN _REQUIRES_RESEED ELSE 0)
    ELSE _NOT_READY + (IF _poolStrength >= Required(level) THEN _REQUIRES_RESEED ELSE 0)

\* the rule with the _READY branch taken only for a non-zero _strength
AmendedReady(level) ==
    IF _strength >= Required(level) /\ _strength # 0
    THEN _READY + (IF _poolEntropy[1] > 80 /\ now > _nextReseed THEN _REQUIRES_RESEED ELSE 0)
    ELSE _NOT_READY + (IF _poolStrength >= Required(level) THEN _REQUIRES_RESEED ELSE 0)

\* C4 as stated: isReady(p) is the specified rule at every level, explicit
\* or defaulted.
C4_ReadyRule ==
    /\ \A p \in Levels : isReady(p) = SpecifiedReady(p)
    /\ isReady(Undefined) = SpecifiedReady(_defaultParanoia)

\* C4 amended: isReady(p) is _READY (plus _REQUIRES_RESEED when pool 0 holds
\* more than 80 bits and the time is past _nextReseed) when _strength is
\* non-zero and >= required; otherwise _NOT_READY, plus _REQUIRES_RESEED
\* exactly when _poolStrength >= required.
C4_ReadyRuleNonZeroStrength ==
    /\ \A p \in Levels : isReady(p) = AmendedReady(p)
    /\ isReady(Undefined) = AmendedReady(_defaultParanoia)

C4_Witness ==
    /\ isReady(1) = _READY + _REQUIRES_RESEED
    /\ isReady(6) = _NOT_READY
    /\ _strength > 0

FedOk == call.op = "addEntropy" /\ call.result = "ok"

\* the call in which the cumulative _poolStrength reaches 256
Reaches256 == FedOk /\ _poolStrength >= 256 /\ _poolStrength - call.est < 256

\* C5 as stated: feeding 48 bits per call from one source, isReady(6) is
\* _NOT_READY below 256 bits and carries the _READY flag from the call that
\* reaches 256 on; one seeded event is fired, in that call.
C5_FeedReachesReadyFlag ==
    /\ _poolStrength < 256 => isReady(6) = _NOT_READY /\ fired.seeded = 0
    /\ _poolStrength >= 256 => HasFlag(isReady(6), _READY) /\ fired.seeded = 1
    /\ FedOk => (call.seeded # <<>> <=> Reaches256)

\* C5 amended: feeding 48 bits per call from one source, isReady(6) is
\* _NOT_READY below 256 bits and is _REQUIRES_RESEED without the _READY flag
\* from the call that reaches 256 on; exactly one seeded event is fired
\* over the run, in that call.
C5_FeedReachesRequiresReseed ==
    /\ _poolStrength < 256 => isReady(6) = _NOT_READY /\ fired.seeded = 0
    /\ _poolStrength >= 256 => isReady(6) = _REQUIRES_RESEED /\ fired.seeded = 1
    /\ FedOk => (call.seeded # <<>> <=> Reaches256)

C5_Witness ==
    /\ FedOk
    /\ _eventId = 7
    /\ _poolStrength = 7 * 48
    /\ fired.seeded = 1
    /\ call.seeded = <<>>

\* C6: a successful addEntropy fires seeded iff isReady() was _NOT_READY
\* before the call and is not _NOT_READY after the entropy was recorded,
\* with argument max(_strength, _poolStrength) after the update, at most once.
C6_SeededOnLeavingNotReady ==
    [][(call'.op = "addEntropy" /\ call'.result = "ok") =>
          LET leaves == isReady(Undefined) = _NOT_READY /\ isReady(Undefined)' # _NOT_READY
              arg == IF _strength' >= _poolStrength' THEN _strength' ELSE _poolStrength'
          IN /\ call'.seeded = (IF leaves THEN <<arg>> ELSE <<>>)
             /\ fired'.seeded = fired.seeded + (IF leaves THEN 1 ELSE 0)]_vars

C6_Witness ==
    /\ FedOk
    /\ Len(call.seeded) = 1
    /\ call.seeded[1] = _poolStrength
    /\ _poolStrength > _strength

\* C7: a successful addEntropy fires exactly one progress event, with
\* argument getProgress() after the update, if isReady() was _NOT_READY before
\* the call, and none otherwise; seeded is delivered before progress.
C7_ProgressWhileNotReady ==
    [][(call'.op = "addEntropy" /\ call'.result = "ok") =>
          LET was == isReady(Undefined) = _NOT_READY
          IN /\ call'.progress = (IF was THEN <<getProgress(Undefined)'>> ELSE <<>>)
             /\ fired'.progress = fired.progress + (IF was THEN 1 ELSE 0)
             /\ call'.order = (IF call'.seeded # <<>> THEN <<"seeded">> ELSE <<>>)
                                \o (IF was THEN <<"progress">> ELSE <<>>)]_vars

C7_Witness ==
    /\ FedOk
    /\ call.order = <<"seeded", "progress">>
    /\ call.progress = <<One>>

\* the progress fraction as the specification words it
SpecifiedProgress(level) ==
    IF _strength >= Required(level) \/ _poolStrength >= Required(level)
    THEN One
    ELSE Frac(_poolStrength, Required(level))

\* C8: getProgress(p) is 1.0 when _strength or _poolStrength reach table[p],
\* otherwise _poolStrength / table[p], at every level p in 0..10 passed to
\* it and at the default level when the argument is omitted.
C8_ProgressRule ==
    /\ \A p \in Levels : getProgress(p) = SpecifiedProgress(p)
    /\ getProgress(Undefined) = SpecifiedProgress(_defaultParanoia)

\* the _pools i < poolCount with c divisible by 2^i
Scheduled(c, poolCount) == {i \in 0..(poolCount - 1) : c % Pow2(i) = 0}

\* C9: a non-full reseed performed at _reseedCount = c consumes exactly the
\* _pools i < poolCount with c divisible by 2^i (they are emptied and their
\* entropy counters zeroed) and leaves every other pool's data and _counter
\* unchanged.
C9_LogarithmicSchedule ==
    [][call'.reseed = "partial" =>
          /\ call'.consumed = Scheduled(_reseedCount, Len(_pools))
          /\ \A i \in 0..(Len(_pools) - 1) :
                IF i \in Scheduled(_reseedCount, Len(_pools))
                THEN _pools'[i + 1] = <<>> /\ _poolEntropy'[i + 1] = 0
                ELSE /\ _pools'[i + 1] = _pools[i + 1]
                     /\ _poolEntropy'[i + 1] = _poolEntropy[i + 1]]_vars

C9_Witness ==
    /\ call.reseed = "partial"
    /\ call.consumed = {0, 1, 2}
    /\ _reseedCount = 9
    /\ Len(_pools) = 4

\* C10: a reseed appends at most one pool, empty and with entropy _counter
\* 0, only when it consumed all existing _pools; _reseedCount <= 2^poolCount
\* always holds and _pools are never removed.
C10_PoolGrowth ==
    /\ [](_reseedCount <= Pow2(Len(_pools)) /\ Len(_poolEntropy) = Len(_pools))
    /\ [][/\ Len(_pools') \in {Len(_pools), Len(_pools) + 1}
          /\ Len(_pools') = Len(_pools) + 1 =>
                /\ call'.reseed # "none"
                /\ call'.grew
                /\ call'.consumed = 0..(Len(_pools) - 1)
                /\ _pools'[Len(_pools')] = <<>>
                /\ _poolEntropy'[Len(_pools')] = 0]_vars

C10_Witness ==
    /\ call.reseed = "partial"
    /\ call.grew
    /\ Len(_pools) = 3
    /\ _reseedCount = 5

\* the reseed the status st asks of randomWords
ReseedFor(st) ==
    IF ~HasFlag(st, _REQUIRES_RESEED) THEN "none"
    ELSE IF HasFlag(st, _READY) THEN "partial" ELSE "full"

\* C11: a successful randomWords performs at most one reseed, before any
\* output block: none when isReady(p) is plain _READY, a full reseed (all
\* pools) when the status is _REQUIRES_RESEED without _READY, a non-full one
\* when the status is _READY with _REQUIRES_RESEED.
C11_ReseedBeforeOutput ==
    [][(call'.op = "randomWords" /\ call'.result = "ok") =>
          /\ call'.reseed = ReseedFor(isReady(call'.p))
          /\ _reseedCount' = _reseedCount + (IF call'.reseed = "none" THEN 0 ELSE 1)
          /\ call'.reseed = "full" => call'.consumed = 0..(Len(_pools) - 1)
          /\ call'.reseed = "partial" =>
                call'.consumed = Scheduled(_reseedCount, Len(_pools))
          /\ call'.reseed = "none" =>
                UNCHANGED <<_pools, _poolEntropy, _strength, _poolStrength, _nextReseed>>
          /\ \A k \in 1..Len(call'.steps) :
                (call'.steps[k] = "reseed") <=> (k = 1 /\ call'.reseed # "none")]_vars

C11_Witness ==
    /\ DrewWords
    /\ call.reseed = "partial"
    /\ call.steps = <<"reseed", "gen", "gen", "gate">>
    /\ _reseedCount = 2

\* the 4-lane counter read as a 128-bit integer: its 8 digits in base 2^16,
\* least significant first, each lane taken mod 2^32
Digits(c) ==
    <<c[1] % 65536, (c[1] \div 65536) % 65536,
      c[2] % 65536, (c[2] \div 65536) % 65536,
      c[3] % 65536, (c[3] \div 65536) % 65536,
      c[4] % 65536, (c[4] \div 65536) % 65536>>

\* the successor mod 2^128 of a number given by its digits
RECURSIVE Succ128(_, _)
Succ128(ds, i) ==
    IF i > 8 THEN ds
    ELSE IF ds[i] = 65535 THEN Succ128([ds EXCEPT ![i] = 0], i + 1)
    ELSE [ds EXCEPT ![i] = ds[i] + 1]

RECURSIVE AddN(_, _)
AddN(ds, k) == IF k = 0 THEN ds ELSE AddN(Succ128(ds, 1), k - 1)

\* the blocks a call generated and the reseeds it made: a gate generates
\* two blocks
Increments(c) == (IF c.reseed # "none" THEN 1 ELSE 0) + c.blocks + 2 * c.gates

\* C12: every block generation and every reseed advances the counter, read
\* as a 128-bit integer, by exactly 1 mod 2^128, and nothing else changes
\* it: a step moves the counter by the number of blocks and reseeds of the
\* call, so it is never reset or decreased.
C12_CounterAdvancesByOne ==
    /\ [](Digits(IncrCounter(_counter, 1)) = Succ128(Digits(_counter), 1))
    /\ [][/\ Digits(_counter') = AddN(Digits(_counter), Increments(call'))
          /\ DrewWords' =>
                /\ Digits(call'.genCounter) =
                      AddN(Digits(_counter), IF call'.reseed # "none" THEN 1 ELSE 0)
                /\ Digits(call'.lastCounter) =
                      AddN(Digits(call'.genCounter), call'.blocks)]_vars

C12_Witness ==
    /\ DrewWords
    /\ call.blocks = 2
    /\ call.genCounter = <<0 - 2, 0 - 1, 0 - 1, 0>>
    /\ _counter = <<2, 0, 0, 1>>

\* a gate in the middle of the output stream: after one output block and
\* before another
MidStreamGate(steps) ==
    \E k \in 2..(Len(steps) - 1) :
        steps[k] = "gate" /\ steps[k - 1] = "gen" /\ steps[k + 1] = "gen"

\* C13: a randomWords call for more words than one burst (65536) gates at
\* least once between two of its output blocks, besides the gate at the end.
C13_MidStreamGate ==
    (DrewWords /\ call.n > _MAX_WORDS_PER_BURST) =>
        /\ call.gates >= 2
        /\ MidStreamGate(call.steps)

\* C14: every successful randomWords, one for 0 words included, gates after
\* its last output block and before returning: the key becomes the 8 words
\* of the next two counter blocks encrypted under the key in place until
\* then, the cipher is rebuilt from it, and the gate is the last step.
C14_GateBeforeReturn ==
    [][DrewWords' =>
          LET old == Aes(call'.lastKey)
              c1 == IncrCounter(call'.lastCounter, 1)
              c2 == IncrCounter(c1, 1)
              k == Encrypt(old, c1) \o Encrypt(old, c2)
          IN /\ _key' = k
             /\ _cipher' = Aes(k)
             /\ _counter' = c2
             /\ call'.gates >= 1
             /\ call'.steps[Len(call'.steps)] = "gate"
             /\ Len(call'.steps) =
                   (IF call'.reseed = "none" THEN 0 ELSE 1) + call'.blocks + call'.gates
             /\ call'.reseed = "none" =>
                   (call'.genKey = _key /\ call'.genCounter = _counter)]_vars

C14_Witness ==
    /\ DrewWords
    /\ call.n = 0
    /\ call.steps = <<"gate">>
    /\ _key # call.lastKey
    /\ _cipher = Aes(_key)

\* the words of m consecutive blocks: the counter c incremented and
\* encrypted under the cipher ciph, m times
RECURSIVE ExpectedBlocks(_, _, _)
ExpectedBlocks(ciph, c, m) ==
    IF m = 0 THEN <<>>
    ELSE LET c1 == IncrCounter(c, 1)
         IN Encrypt(ciph, c1) \o ExpectedBlocks(ciph, c1, m - 1)

\* C15: a successful randomWords(n, p), n >= 0, returns exactly n words: the
\* first n words of the ceil(n/4) consecutive blocks obtained by encrypting
\* the successively incremented counter, in generation order.
C15_ExactlyNWords ==
    [][DrewWords' =>
          /\ Len(call'.out) = call'.n
          /\ call'.blocks = (call'.n + 3) \div 4
          /\ call'.out = SubSeq(ExpectedBlocks(Aes(call'.genKey), call'.genCounter,
                                               (call'.n + 3) \div 4),
                                1, call'.n)]_vars

C15_Witness ==
    /\ DrewWords
    /\ call.n = 5
    /\ call.blocks = 2
    /\ Len(call.out) = 5
    /\ call.reseed = "none"

\* the status and the progress fraction judged at a given level
ProgressAt(level) ==
    IF _strength >= Required(level) \/ _poolStrength > Required(level)
    THEN One
    ELSE Frac(_poolStrength, Required(level))

\* C17: setDefaultParanoia(level, phrase) fails when level is 0 and phrase
\* is not the required literal, leaving the default paranoia unchanged; in
\* every other case the default becomes level; isReady() and getProgress()
\* without argument judge at the default level.
C17_DefaultParanoia ==
    /\ [](/\ isReady(Undefined) = AmendedReady(_defaultParanoia)
          /\ getProgress(Undefined) = ProgressAt(_defaultParanoia))
    /\ [][call'.op = "setDefaultParanoia" =>
             IF call'.p = 0 /\ call'.phrase # ZeroParanoiaPhrase
             THEN call'.result = "thrown" /\ _defaultParanoia' = _defaultParanoia
             ELSE call'.result = "ok" /\ _defaultParanoia' = call'.p]_vars
    /\ [][_defaultParanoia' # _defaultParanoia => call'.op = "setDefaultParanoia"]_vars

C17_Witness ==
    /\ call.op = "setDefaultParanoia"
    /\ call.p = 0
    /\ call.phrase = ZeroParanoiaPhrase
    /\ _defaultParanoia = 0
    /\ _poolStrength > 0
    /\ isReady(Undefined) = _REQUIRES_RESEED
    /\ isReady(6) = _NOT_READY

\* the robin value of a source before a call: 0 on the source's first call
RobinBefore(s) == IF _robins[s] = Undefined THEN 0 ELSE _robins[s]

\* the pools the calls of source s updated, in the order of the calls:
\* one entry per call, Undefined for a call that updated none
PoolsOf(s) ==
    LET RECURSIVE Of(_)
        Of(k) == IF k = 0 THEN <<>>
                 ELSE IF twin.script[k].source = s
                      THEN Append(Of(k - 1), twin.script[k])
                      ELSE Of(k - 1)
    IN Of(Len(twin.script))

\* C18: each addEntropy call of a source absorbs into the pool whose index
\* is the source's robin before the call (0 on its first call) and sets the
\* robin to (robin + 1) mod poolCount; the index is a valid pool index in
\* every state, also across pool growth; with poolCount fixed at N, N
\* consecutive calls of a source hit each of the N pools exactly once.
C18_RoundRobin ==
    /\ [](\A s \in AllSources :
             _robins[s] = Undefined \/ _robins[s] \in 0..(Len(_pools) - 1))
    /\ [][call'.op = "addEntropy" =>
             LET s == call'.source
                 target == RobinBefore(s)
             IN /\ target \in 0..(Len(_pools) - 1)
                /\ Len(_pools') = Len(_pools)
                /\ \A i \in 1..Len(_pools) :
                      IF i = target + 1
                      THEN Len(_pools'[i]) > Len(_pools[i])
                      ELSE _pools'[i] = _pools[i]
                /\ _robins'[s] = (target + 1) % Len(_pools)
                /\ \A o \in AllSources \ {s} : _robins'[o] = _robins[o]]_vars
    /\ [](\A s \in AllSources :
             LET calls == PoolsOf(s)
             IN \A k \in 1..Len(calls) :
                   LET N == calls[k].n
                   IN (k + N - 1 <= Len(calls)
                         /\ \A j \in k..(k + N - 1) : calls[j].n = N)
                      => {calls[j].pool : j \in k..(k + N - 1)} = 0..(N - 1))

\* C19: addEntropy with data that is neither an integer, a sequence of
\* integers nor text fails with the bug error and has no effect: pools,
\* entropy counters, poolStrength, the event id counter, the round-robin
\* indices and the collector-id table are as before, and no event is fired.
C19_FailedCallNoEffect ==
    [][(call'.op = "addEntropy" /\ call'.result # "ok") =>
          /\ call'.result = "bug"
          /\ UNCHANGED <<_pools, _poolEntropy, _poolStrength, _eventId>>
          /\ UNCHANGED <<_robins, _collectorIds, _collectorIdNext>>
          /\ UNCHANGED fired
          /\ call'.seeded = <<>> /\ call'.progress = <<>>]_vars

\* the calls a delivery of the event name with argument arg owes to the
\* entries registered when it starts, by ascending key
RECURSIVE Owed(_, _, _)
Owed(entries, name, arg) ==
    IF entries = <<>> THEN <<>>
    ELSE <<[name |-> name, cb |-> Head(entries)[2], arg |-> arg]>>
            \o Owed(Tail(entries), name, arg)

\* C20: a delivery calls every listener registered on the channel when it
\* starts exactly once, with the event argument, whatever the listeners add
\* or remove meanwhile; a listener added during the delivery is not called
\* in it.  The listeners here change only the channel they are called for,
\* so both deliveries of a call start from the registry before the call.
C20_SnapshotDelivery ==
    [][(call'.op = "addEntropy" /\ call'.result = "ok") =>
          call'.delivered =
              (IF call'.seeded # <<>>
               THEN Owed(InKeyOrder(_callbacks["seeded"]), "seeded", call'.seeded[1])
               ELSE <<>>)
              \o (IF call'.progress # <<>>
                  THEN Owed(InKeyOrder(_callbacks["progress"]), "progress",
                            call'.progress[1])
                  ELSE <<>>)]_vars

C20_Witness ==
    /\ FedOk
    /\ call.delivered = <<[name |-> "seeded", cb |-> "remover", arg |-> 300],
                          [name |-> "seeded", cb |-> "plain", arg |-> 300],
                          [name |-> "seeded", cb |-> "adder", arg |-> 300]>>
    /\ _callbacks["seeded"] = {<<0, "remover">>, <<2, "adder">>, <<3, "late">>}

\* the two instances were given call i at the same clock reading and drew
\* the same words from Math.random() in it
SameHost(i) ==
    /\ twin.replay[i].now = twin.script[i].now
    /\ twin.replay[i].rnd = twin.script[i].rnd

\* the two instances gave the same result in call i
SameResult(i) ==
    /\ twin.replay[i].result = twin.script[i].result
    /\ twin.replay[i].out = twin.script[i].out

\* C16 as stated: with the cipher and the hash fixed, a second instance
\* given the same addEntropy and randomWords calls as a first returns the
\* same randomWords results.
C16_Determinism == \A i \in 1..Len(twin.replay) : SameResult(i)

\* The results of an instance as a function of what it is given: the calls
\* with their arguments, the clock reading at each call and the words
\* Math.random() yields in each reseed.  The generator g it folds over is
\* the key, the counter as a number, the words each pool has absorbed and
\* the bits credited to it, the number of reseeds, the strength, the
\* deadline of the next timed reseed, the number of events, the sources in
\* the order they were first seen, and each source's turn.
FreshGenerator ==
    [key |-> <<0, 0, 0, 0, 0, 0, 0, 0>>, ctr |-> 0, pools |-> <<<<>>>>,
     bits |-> <<0>>, reseeds |-> 0, strength |-> 0, due |-> 0, events |-> 0,
     seen |-> <<>>, turn |-> [s \in AllSources |-> 0]]

\* addEntropy(a.data, a.est, a.source) at the clock reading t, for a number
\* or an array of numbers with its estimate given
Fed(g, a, t) ==
    LET s == IF a.source = "" THEN "user" ELSE a.source
        known == {i \in 1..Len(g.seen) : g.seen[i] = s}
        id == IF known = {} THEN Len(g.seen) ELSE (CHOOSE i \in known : TRUE) - 1
        i == g.turn[s] + 1
        record == IF a.data.type = "number"
                  THEN <<id, g.events, 1, a.est, t, 1, a.data.val[1]>>
                  ELSE <<id, g.events, 2, a.est, t, Len(a.data.val)>> \o a.data.val
    IN [g |-> [g EXCEPT !.pools[i] = @ \o record,
                        !.bits[i] = @ + a.est,
                        !.events = @ + 1,
                        !.seen = IF known = {} THEN Append(@, s) ELSE @,
                        !.turn[s] = (@ + 1) % Len(g.pools)],
        res |-> [result |-> "ok", out |-> <<>>, drew |-> FALSE]]

\* the sequence of k copies of x
RECURSIVE Repeated(_, _)
Repeated(x, k) == IF k <= 0 THEN <<>> ELSE <<x>> \o Repeated(x, k - 1)

\* the m blocks that follow the counter value v under the key
RECURSIVE BlocksAfter(_, _, _)
BlocksAfter(key, v, m) ==
    IF m = 0 THEN <<>>
    ELSE Encrypt(Aes(key), <<v + 1, 0, 0, 0>>) \o BlocksAfter(key, v + 1, m - 1)

\* the digests of the first k pools, in index order
RECURSIVE DigestsOf(_, _)
DigestsOf(pools, k) ==
    IF k = 0 THEN <<>> ELSE DigestsOf(pools, k - 1) \o Sha256(pools[k])

\* randomWords(d.n, d.p) at the clock reading t, rnd being the words of
\* Math.random() if it reseeds.  Below the level's threshold it fails; it
\* reseeds from every pool when the strength is short of the threshold (or
\* zero) and the pools make it up, and from the pools scheduled at this
\* reseed count when pool 0 holds more than 80 bits past the deadline; it
\* then returns the first n words of the blocks that follow the counter and
\* replaces the key by the next two blocks.
Drawn(g, d, t, rnd) ==
    LET need == _PARANOIA_LEVELS[d.p + 1]
        n == Len(g.pools)
        mode == IF g.strength > 0 /\ g.strength >= need
                THEN IF g.bits[1] > _BITS_PER_RESEED /\ t > g.due
                     THEN "partial" ELSE "none"
                ELSE IF SumSeq(g.bits) >= need THEN "full" ELSE "fail"
        take == IF mode = "full" THEN n
                ELSE Cardinality({i \in 0..(n - 1) : g.reseeds % Pow2(i) = 0})
        payload == <<t + _MILLISECONDS_PER_RESEED>> \o rnd \o DigestsOf(g.pools, take)
        gained == SumSeq(SubSeq(g.bits, 1, take))
        size == IF g.reseeds >= Pow2(n) THEN n + 1 ELSE n
        r == IF mode = "none" THEN g
             ELSE [g EXCEPT
                     !.key = Sha256(g.key \o payload),
                     !.ctr = @ + 1,
                     !.pools = Repeated(<<>>, take) \o SubSeq(g.pools, take + 1, n)
                                 \o Repeated(<<>>, size - n),
                     !.bits = Repeated(0, take) \o SubSeq(g.bits, take + 1, n)
                                \o Repeated(0, size - n),
                     !.reseeds = @ + 1,
                     !.strength = Max(@, gained),
                     !.due = t + _MILLISECONDS_PER_RESEED]
        m == (d.n + 3) \div 4
    IN IF mode = "fail"
       THEN [g |-> g, res |-> [result |-> "notReady", out |-> <<>>, drew |-> FALSE]]
       ELSE [g |-> [r EXCEPT !.key = BlocksAfter(r.key, r.ctr + m, 2),
                            !.ctr = @ + m + 2],
             res |-> [result |-> "ok",
                      out |-> SubSeq(BlocksAfter(r.key, r.ctr, m), 1, d.n),
                      drew |-> mode # "none"]]

\* the results of the calls k, k + 1, ... of a log made on the generator g
RECURSIVE Played(_, _, _)
Played(log, k, g) ==
    IF k > Len(log) THEN <<>>
    ELSE LET e == log[k]
             step == IF e.op = "addEntropy" THEN Fed(g, e.arg, e.now)
                     ELSE Drawn(g, e.arg, e.now, e.rnd)
         IN <<step.res>> \o Played(log, k + 1, step.g)

ResultsOf(log) == Played(log, 1, FreshGenerator)

\* the results an instance gave, and whether it drew from Math.random()
Observed(log) ==
    [i \in 1..Len(log) |-> [result |-> log[i].result, out |-> log[i].out,
                            drew |-> log[i].rnd # <<>>]]

\* C16 amended: with the cipher and the hash fixed, a second instance given
\* the same calls at the same clock readings, and drawing the same words
\* from Math.random() in its reseeds, returns the same randomWords results:
\* the results of either instance are the function ResultsOf of the calls,
\* the clock readings and the Math.random() words it was given.
C16_DeterminismFixedHost ==
    /\ \A i \in 1..Len(twin.replay) :
          (\A j \in 1..i : SameHost(j)) => SameResult(i)
    /\ Observed(twin.script) = ResultsOf(twin.script)
    /\ Observed(twin.replay) = ResultsOf(twin.replay)

\* both instances were fed, drew five words after a full reseed, were fed
\* again and drew again after a timed reseed, under a gated key, at the
\* same clock readings and with the same Math.random() words
C16_Witness ==
    /\ twin.phase = 2
    /\ Len(twin.replay) = 4
    /\ \A i \in 1..4 : SameHost(i) /\ SameResult(i)
    /\ twin.script[2].op = "randomWords"
    /\ Len(twin.script[2].out) = 5
    /\ twin.script[4].op = "randomWords"
    /\ twin.script[4].result = "ok"
    /\ twin.script[4].rnd # <<>>
    /\ twin.script[4].now > twin.script[2].now + _MILLISECONDS_PER_RESEED
    /\ twin.script[4].out # <<>>


(* ---------------------------------------------------------------------- *)
(* Bit arrays (src/src/bitarray.ts, class BitArray)                        *)
(*                                                                         *)
(* A cell of a bit array is a JavaScript number low + tag * 2^40 with low  *)
(* an int32; it is kept as the pair of the two.  The 32 bits of an int32   *)
(* are a sequence, most significant bit first.                             *)
(* ---------------------------------------------------------------------- *)
MaxWords == 2

Num(tag, low) == [tag |-> tag, low |-> low]

\* the value `undefined` in a cell: an omitted carry, a read past the end
UndefinedWord == [tag |-> 0 - 1, low |-> 0]

\* 2^0 .. 2^30
PowersOf2 == [i \in 0..30 |-> Pow2(i)]

\* the bits of the int32 x
Bits32(x) ==
    LET u == IF x < 0 THEN x - MinInt32 ELSE x
    IN [i \in 1..32 |-> IF i = 1 THEN (IF x < 0 THEN 1 ELSE 0)
                        ELSE (u \div PowersOf2[32 - i]) % 2]

RECURSIVE BitsValue(_)
BitsValue(b) == IF b = <<>> THEN 0 ELSE 2 * BitsValue(SubSeq(b, 1, Len(b) - 1)) + b[Len(b)]

\* the int32 with the bits b
Int32(b) ==
    LET low == BitsValue(SubSeq(b, 2, 32))
    IN IF b[1] = 1 THEN low + MinInt32 ELSE low

\* x | 0 and the operand conversion of the bitwise operators: a number keeps
\* its low 32 bits (tag * 2^40 is a multiple of 2^32), undefined gives 0
LowWord(c) == c.low

\* a & b, a | b, a ^ b on int32 values
BitAnd(x, y) == Int32([i \in 1..32 |-> IF Bits32(x)[i] = 1 /\ Bits32(y)[i] = 1 THEN 1 ELSE 0])

BitOr(x, y) == Int32([i \in 1..32 |-> IF Bits32(x)[i] = 1 \/ Bits32(y)[i] = 1 THEN 1 ELSE 0])

BitXor(x, y) == Int32([i \in 1..32 |-> IF Bits32(x)[i] # Bits32(y)[i] THEN 1 ELSE 0])

\* x << n, x >>> n, x >> n : the shift count is taken mod 32
Shl(x, n) ==
    LET k == n % 32
    IN Int32([i \in 1..32 |-> IF i + k <= 32 THEN Bits32(x)[i + k] ELSE 0])

Shr(x, n) ==
    LET k == n % 32
    IN Int32([i \in 1..32 |-> IF i - k >= 1 THEN Bits32(x)[i - k] ELSE 0])

Sar(x, n) ==
    LET k == n % 32
    IN Int32([i \in 1..32 |-> IF i - k >= 1 THEN Bits32(x)[i - k] ELSE Bits32(x)[1]])

\* (x - 1) | 0 for an int32 x
Dec32(x) == IF x = MinInt32 THEN MaxInt32 ELSE x - 1

\* partial(len, x, _end)
partial(len, x, end) ==
    IF len = 32 THEN x
    ELSE Num(len, IF end # 0 THEN LowWord(x) ELSE Shl(LowWord(x), 32 - len))

\* getPartial(x): Math.round(x / 2^40) || 32; |low| < 2^39 rounds away
getPartial(x) == IF x.tag <= 0 THEN 32 ELSE x.tag

bitLength(a) ==
    LET l == Len(a)
    IN IF l = 0 THEN 0 ELSE (l - 1) * 32 + getPartial(a[l])

\* a.slice(from, to) with 0-based bounds
Slice(a, from, to) ==
    LET t == IF to > Len(a) THEN Len(a) ELSE to
    IN IF from >= t THEN <<>> ELSE SubSeq(a, from + 1, t)

\* Math.ceil(n / 32) for n >= 0
Ceil32(n) == (n + 31) \div 32

\* 0x80000000 >> (len - 1): the mask of the len high bits
HighMask(len) == Sar(MinInt32, len - 1)

\* clamp passing the masked word to partial as not yet shifted
clamp_Reshift(a, len) ==
    IF Len(a) * 32 < len THEN a
    ELSE LET s == Slice(a, 0, Ceil32(len))
             l == Len(s)
             r == len % 32
         IN IF l > 0 /\ r # 0
            THEN [s EXCEPT ![l] = partial(r, Num(0, BitAnd(LowWord(s[l]), HighMask(r))), 0)]
            ELSE s

clamp(a, len) ==
    IF Len(a) * 32 < len THEN a
    ELSE LET s == Slice(a, 0, Ceil32(len))
             l == Len(s)
             r == len % 32
         IN IF l > 0 /\ r # 0
            THEN [s EXCEPT ![l] = partial(r, Num(0, BitAnd(LowWord(s[l]), HighMask(r))), 1)]
            ELSE s

\* the first loop of _shiftRight: whole words of shift push the carry
RECURSIVE ShiftWhole(_, _, _)
ShiftWhole(shift, carry, out) ==
    IF shift >= 32 THEN ShiftWhole(shift - 32, Num(0, 0), Append(out, carry))
    ELSE [shift |-> shift, carry |-> carry, out |-> out]

\* the second loop of _shiftRight, from the 1-based index i
RECURSIVE ShiftLoop(_, _, _, _, _)
ShiftLoop(a, shift, carry, out, i) ==
    IF i > Len(a) THEN [carry |-> carry, out |-> out]
    ELSE ShiftLoop(a, shift,
                   Num(0, Shl(LowWord(a[i]), 32 - shift)),
                   Append(out, Num(0, BitOr(LowWord(carry), Shr(LowWord(a[i]), shift)))),
                   i + 1)

\* out.pop(): the last element, undefined on an empty array
Pop(out) == IF out = <<>> THEN UndefinedWord ELSE out[Len(out)]

PopRest(out) == IF out = <<>> THEN <<>> ELSE SubSeq(out, 1, Len(out) - 1)

_shiftRight(a, shift, carry, out) ==
    LET w == ShiftWhole(shift, carry, out)
    IN IF w.shift = 0 THEN w.out \o a
       ELSE LET r == ShiftLoop(a, w.shift, w.carry, w.out, 1)
                last2 == IF Len(a) # 0 THEN a[Len(a)] ELSE Num(0, 0)
                shift2 == getPartial(last2)
            IN IF w.shift + shift2 > 32
               THEN Append(r.out, partial((w.shift + shift2) % 32, r.carry, 1))
               ELSE Append(PopRest(r.out),
                           partial((w.shift + shift2) % 32, Pop(r.out), 1))

\* bitSlice(a, bstart, bend); bend = Undefined slices to the end
bitSlice(a, bstart, bend) ==
    LET s == Slice(_shiftRight(Slice(a, bstart \div 32, Len(a)), 32 - (bstart % 32),
                               UndefinedWord, <<>>),
                   1, Len(a) + 2)
    IN IF bend = Undefined THEN s ELSE clamp(s, bend - bstart)

\* a[i] with a 0-based index, undefined past the end
At(a, i) == IF i < Len(a) THEN a[i + 1] ELSE UndefinedWord

extract(a, bstart, blength) ==
    LET sh == (0 - bstart - blength) % 32
        cross == BitAnd(BitXor(bstart + blength - 1, bstart), 0 - 32) # 0
        x == IF cross
             THEN BitXor(Shl(LowWord(At(a, bstart \div 32)), 32 - sh),
                         Shr(LowWord(At(a, bstart \div 32 + 1)), sh))
             ELSE Shr(LowWord(At(a, bstart \div 32)), sh)
    IN BitAnd(x, Dec32(Shl(1, blength)))

\* concat without the re-justification of a2
concat_NoShift(a1, a2) == a1 \o a2

concat(a1, a2) ==
    IF Len(a1) = 0 \/ Len(a2) = 0 THEN a1 \o a2
    ELSE LET last == a1[Len(a1)]
             shift == getPartial(last)
         IN IF shift = 32 THEN a1 \o a2
            ELSE _shiftRight(a2, shift, Num(0, LowWord(last)), Slice(a1, 0, Len(a1) - 1))

\* the loop of equal from the 1-based index i: x |= a[i] ^ b[i], one step
\* for each word of a
\* the loop leaving at the first difference
RECURSIVE XorLoop_EarlyExit(_, _, _, _, _)
XorLoop_EarlyExit(a, b, i, x, steps) ==
    IF i > Len(a) \/ x # 0 THEN [x |-> x, steps |-> steps]
    ELSE XorLoop_EarlyExit(a, b, i + 1,
                 BitOr(x, BitXor(LowWord(a[i]), LowWord(At(b, i - 1)))),
                 Append(steps, "xor"))

RECURSIVE XorLoop(_, _, _, _, _)
XorLoop(a, b, i, x, steps) ==
    IF i > Len(a) THEN [x |-> x, steps |-> steps]
    ELSE XorLoop(a, b, i + 1,
                 BitOr(x, BitXor(LowWord(a[i]), LowWord(At(b, i - 1)))),
                 Append(steps, "xor"))

\* equal(a, b): the value returned and the steps executed
equal(a, b) ==
    IF bitLength(a) # bitLength(b)
    THEN [result |-> FALSE, steps |-> <<"length">>]
    ELSE LET r == XorLoop(a, b, 1, 0, <<"length">>)
         IN [result |-> r.x = 0, steps |-> Append(r.steps, "test")]

(* ---------------------------------------------------------------------- *)
(* Bit array inputs: up to MaxWords cells, full words and, as the last     *)
(* cell, words of 1, 8 or 31 significant bits made by partial              *)
(* ---------------------------------------------------------------------- *)
FullWords == {0, 0 - 1, 305419896}

PartialLens == {1, 8, 31}

PartialWords == {partial(len, Num(0, x), 0) : len \in PartialLens, x \in FullWords}

RECURSIVE FullArrays(_)
FullArrays(n) ==
    IF n = 0 THEN {<<>>}
    ELSE {Append(a, Num(0, x)) : a \in FullArrays(n - 1), x \in FullWords}

BitArrays ==
    UNION {FullArrays(n) : n \in 0..MaxWords}
    \cup UNION {{Append(a, p) : a \in FullArrays(n - 1), p \in PartialWords} : n \in 1..MaxWords}

BitCall(op, a, b) ==
    [op |-> op, a |-> a, b |-> b, bstart |-> 0, n |-> 0, result |-> <<>>,
     head |-> <<>>, again |-> <<>>, value |-> 0, same |-> FALSE, steps |-> <<>>]

\* the generator is not involved: it stays as constructed
InitBitArray(calls) ==
    /\ _pools = <<<<>>>>
    /\ _poolEntropy = <<0>>
    /\ _reseedCount = 0
    /\ _robins = [s \in AllSources |-> Undefined]
    /\ _eventId = 0
    /\ _collectorIds = [s \in AllSources |-> Undefined]
    /\ _collectorIdNext = 0
    /\ _strength = 0
    /\ _poolStrength = 0
    /\ _nextReseed = 0
    /\ _key = <<0, 0, 0, 0, 0, 0, 0, 0>>
    /\ _counter = <<0, 0, 0, 0>>
    /\ _cipher = NoCipher
    /\ _defaultParanoia = InitialParanoia
    /\ now = StartTime
    /\ call \in calls
    /\ fired = [seeded |-> 0, progress |-> 0]
    /\ _callbacks = [progress |-> {}, seeded |-> {}]
    /\ _callbackI = 0
    /\ twin = NoTwin
    /\ random = ThisIsRandom

BitUnchanged ==
    UNCHANGED <<genVars, srcVars, cbVars, _defaultParanoia, now, fired, twin, random>>

\* pairs of bit arrays: concat, then bitSlice of its result, and equal
InitPairs == InitBitArray({BitCall("input", a, b) : a \in BitArrays, b \in BitArrays})

DoConcat ==
    /\ call.op = "input"
    /\ call' = [call EXCEPT !.op = "concat", !.result = concat(call.a, call.b)]
    /\ BitUnchanged

DoSliceHead ==
    /\ call.op = "concat"
    /\ call' = [call EXCEPT !.op = "bitSlice",
                            !.head = bitSlice(call.result, 0, bitLength(call.a))]
    /\ BitUnchanged

DoEqual ==
    /\ call.op = "input"
    /\ \E r \in {equal(call.a, call.b)} :
           call' = [call EXCEPT !.op = "equal", !.same = r.result, !.steps = r.steps]
    /\ BitUnchanged

NextPairs == DoConcat \/ DoSliceHead \/ DoEqual

SpecPairs == InitPairs /\ [][NextPairs]_vars

\* one bit array: clamp, then clamp of its result, and extract
InitOne == InitBitArray({BitCall("input", a, <<>>) : a \in BitArrays})

ClampLengths == 0..(32 * MaxWords + 2)

ExtractLengths == {1, 7, 16, 31, 32}

DoClamp ==
    \E len \in ClampLengths :
        /\ call.op = "input"
        /\ call' = [call EXCEPT !.op = "clamp", !.n = len, !.result = clamp(call.a, len)]
        /\ BitUnchanged

DoClampAgain ==
    /\ call.op = "clamp"
    /\ call' = [call EXCEPT !.op = "clampAgain", !.again = clamp(call.result, call.n)]
    /\ BitUnchanged

DoExtract ==
    \E bstart \in 0..(32 * MaxWords), blength \in ExtractLengths :
        /\ call.op = "input"
        /\ bstart + blength <= bitLength(call.a)
        /\ call' = [call EXCEPT !.op = "extract", !.bstart = bstart, !.n = blength,
                                !.value = extract(call.a, bstart, blength)]
        /\ BitUnchanged

NextOne == DoClamp \/ DoClampAgain \/ DoExtract

SpecOne == InitOne /\ [][NextOne]_vars

(* ---------------------------------------------------------------------- *)
(* Bit array properties                                                    *)
(* ---------------------------------------------------------------------- *)
\* the bit string a bit array stands for: of each cell its getPartial high
\* bits, in order
RECURSIVE BitString(_)
BitString(a) ==
    IF a = <<>> THEN <<>>
    ELSE SubSeq(Bits32(LowWord(Head(a))), 1, getPartial(Head(a))) \o BitString(Tail(a))

EndsPartial(a) == a # <<>> /\ getPartial(a[Len(a)]) < 32

\* C21: the bit length of concat(a, b) is the sum of the bit lengths of a
\* and b, and the slice of its first bitLength(a) bits has the bit length
\* and the bits of a.
C21_ConcatIsConcatenation ==
    /\ call.op \in {"concat", "bitSlice"} =>
           bitLength(call.result) = bitLength(call.a) + bitLength(call.b)
    /\ call.op = "bitSlice" =>
           /\ bitLength(call.head) = bitLength(call.a)
           /\ BitString(call.head) = BitString(call.a)
           /\ call.head = call.a

C21_Witness ==
    /\ call.op = "bitSlice"
    /\ Len(call.a) = 2
    /\ getPartial(call.a[2]) = 8
    /\ EndsPartial(call.b)
    /\ Len(call.b) = 2
    /\ bitLength(call.result) = 103
    /\ Len(call.result) = 4
    /\ call.head = call.a
    /\ call.result # call.a \o call.b
    /\ LowWord(call.a[2]) # 0

\* C22: clamp(a, len) with len above the bit length of a returns a, and so
\* never a longer bit array.
C22_ClampLongerUnchanged ==
    (call.op = "clamp" /\ call.n > bitLength(call.a)) =>
        /\ call.result = call.a
        /\ bitLength(call.result) <= bitLength(call.a)

\* C23: clamping the result of clamp(a, n) to n again gives the same cells
\* and the same bit length.
C23_ClampIdempotent ==
    call.op = "clampAgain" =>
        /\ call.again = call.result
        /\ bitLength(call.again) = bitLength(call.result)

C23_Witness ==
    /\ call.op = "clampAgain"
    /\ call.n = 40
    /\ Len(call.a) = 2
    /\ call.result # call.a
    /\ getPartial(call.result[2]) = 8
    /\ LowWord(call.result[2]) # 0
    /\ call.again = call.result

\* the steps of a comparison that looks at the lengths, then at every word
\* pair, then at the accumulator
ConstantTimeSteps(a, b) ==
    IF bitLength(a) # bitLength(b) THEN <<"length">>
    ELSE <<"length">> \o [i \in 1..Len(a) |-> "xor"] \o <<"test">>

\* C24: equal(a, b) is true exactly when a and b have the same bit length
\* and the same bits, and the steps it executes are fixed by the lengths:
\* with equal bit lengths one xor for each word pair and one test of the
\* accumulator.
C24_ConstantTimeEqual ==
    call.op = "equal" =>
        /\ call.same = (/\ bitLength(call.a) = bitLength(call.b)
                        /\ BitString(call.a) = BitString(call.b))
        /\ call.steps = ConstantTimeSteps(call.a, call.b)

C24_Witness ==
    /\ call.op = "equal"
    /\ Len(call.a) = 2
    /\ bitLength(call.a) = bitLength(call.b)
    /\ EndsPartial(call.a)
    /\ call.a[1] # call.b[1]
    /\ ~call.same
    /\ call.steps = <<"length", "xor", "xor", "test">>

\* the bits bstart .. bstart + blength - 1 of a as a 32-bit number
SpanBits(a, bstart, blength) ==
    [i \in 1..(32 - blength) |-> 0]
        \o SubSeq(BitString(a), bstart + 1, bstart + blength)

\* C25: extract(a, bstart, blength) with 1 <= blength <= 32 inside a is the
\* number whose binary digits are the bits bstart .. bstart + blength - 1.
C25_ExtractSpan ==
    call.op = "extract" =>
        Bits32(call.value) = SpanBits(call.a, call.bstart, call.n)


(* ---------------------------------------------------------------------- *)
(* A longer life of one generator: 100 estimated bits per accepted call,   *)
(* draws at the default level and at levels 0 and 1, and the clock moving  *)
(* past the reseed deadline.  The default paranoia is never changed.       *)
(* ---------------------------------------------------------------------- *)
LongEvents == 5

LongReseeds == 4

LongCounter == 12

LongTime == 30002

LongEstimates == {100}

LongTicks == {_MILLISECONDS_PER_RESEED, _MILLISECONDS_PER_RESEED + 1}

DoLongAdd ==
    \E data \in DataInputs, e \in LongEstimates :
        /\ CanAdd(LongEvents)
        /\ addEntropy(data, e, "")
        /\ UNCHANGED <<twin, random>>

DoLongDraw ==
    \E p \in ParanoiaInputs :
        /\ CanDraw(LongReseeds, LongCounter)
        /\ randomWords(0, p)
        /\ UNCHANGED <<twin, random>>

DoLongTick ==
    \E d \in LongTicks :
        /\ Tick(d, LongTime)
        /\ UNCHANGED <<twin, random>>

NextLong == DoLongAdd \/ DoLongDraw \/ DoLongTick

SpecLong == Init /\ [][NextLong]_vars

\* C26: once isReady() at the default paranoia is not NOT_READY it stays
\* so, and once a seeded event was fired no seeded and no progress event is
\* fired any more.
C26_ReadinessNeverRegresses ==
    /\ [][isReady(Undefined) # _NOT_READY => isReady(Undefined)' # _NOT_READY]_vars
    /\ [][fired.seeded >= 1 => fired' = fired]_vars


\* the sum of the entropy counters of the pools with the 0-based indices in
\* consumed
RECURSIVE EntropyOf(_, _)
EntropyOf(entropy, consumed) ==
    IF consumed = {} THEN 0
    ELSE LET i == CHOOSE j \in consumed : TRUE
         IN entropy[i + 1] + EntropyOf(entropy, consumed \ {i})

Reseeded == call.reseed # "none"

\* C27: strength changes only in a reseed, which sets it to the larger of
\* its previous value and the entropy of the pools the reseed consumed; it
\* never decreases, and a level that has the READY flag keeps it.
C27_StrengthHighWaterMark ==
    [][/\ _strength' >= _strength
       /\ _strength' # _strength => Reseeded'
       /\ Reseeded' =>
              _strength' = Max(_strength, EntropyOf(_poolEntropy, call'.consumed))
       /\ \A p \in Levels :
              HasFlag(isReady(p), _READY) => HasFlag(isReady(p)', _READY)]_vars

C27_Witness ==
    /\ call.op = "randomWords"
    /\ call.reseed = "partial"
    /\ call.consumed = {0}
    /\ _strength = 200
    /\ _poolEntropy = <<0, 100>>
    /\ HasFlag(isReady(5), _READY)
    /\ ~HasFlag(isReady(6), _READY)

\* C28: poolStrength is the sum of the entropy counters of the pools, and
\* there is one entropy counter for each pool.
C28_PoolStrengthIsSum ==
    /\ _poolStrength = SumSeq(_poolEntropy)
    /\ Len(_poolEntropy) = Len(_pools)

C28_Witness ==
    /\ call.op = "addEntropy"
    /\ call.result = "bug"
    /\ _reseedCount = 4
    /\ Len(_pools) = 2
    /\ _poolEntropy = <<100, 100>>
    /\ _poolStrength = 200

\* C29: a reseed sets nextReseed to its time plus 30000 ms, and a non-full
\* reseed in randomWords happens only after the nextReseed of the reseed
\* before it and with more than 80 bits in the entropy counter of pool 0.
C29_RateLimitedReseeds ==
    [][/\ Reseeded' => _nextReseed' = now' + _MILLISECONDS_PER_RESEED
       /\ (call'.op = "randomWords" /\ call'.reseed = "partial") =>
              /\ _reseedCount >= 1
              /\ now' > _nextReseed
              /\ _poolEntropy[1] > _BITS_PER_RESEED]_vars

C29_Witness ==
    /\ call.op = "randomWords"
    /\ call.reseed = "partial"
    /\ now = _MILLISECONDS_PER_RESEED + 2
    /\ _nextReseed = now + _MILLISECONDS_PER_RESEED
    /\ _reseedCount = 2


(* ---------------------------------------------------------------------- *)
(* A generator made with new prng(6) beside the exported `random`:         *)
(* listeners are registered on either, entropy is added to the new one     *)
(* ---------------------------------------------------------------------- *)
InstanceListeners == 2

InstanceEvents == 2

InitInstance ==
    /\ _pools = <<<<>>>>
    /\ _poolEntropy = <<0>>
    /\ _reseedCount = 0
    /\ _robins = [s \in AllSources |-> Undefined]
    /\ _eventId = 0
    /\ _collectorIds = [s \in AllSources |-> Undefined]
    /\ _collectorIdNext = 0
    /\ _strength = 0
    /\ _poolStrength = 0
    /\ _nextReseed = 0
    /\ _key = <<0, 0, 0, 0, 0, 0, 0, 0>>
    /\ _counter = <<0, 0, 0, 0>>
    /\ _cipher = NoCipher
    /\ _defaultParanoia = InitialParanoia
    /\ now = StartTime
    /\ call = NoCall
    /\ fired = [seeded |-> 0, progress |-> 0]
    /\ _callbacks = [progress |-> {}, seeded |-> {}]
    /\ _callbackI = 0
    /\ twin = NoTwin
    /\ random = OtherIsRandom

\* g.addEventListener(name, cb) on the new generator g
DoInstanceListen ==
    \E name \in Channels, cb \in Callbacks :
        /\ _callbackI < InstanceListeners
        /\ addEventListener(name, cb)
        /\ UNCHANGED <<twin, random>>

\* random.addEventListener(name, cb)
DoRandomListen ==
    \E name \in Channels, cb \in Callbacks :
        /\ random._callbackI < InstanceListeners
        /\ \E w \in {AddTo([cbs |-> random._callbacks, i |-> random._callbackI,
                            log |-> <<>>], name, cb)} :
              random' = [random EXCEPT !._callbacks = w.cbs, !._callbackI = w.i]
        /\ call' = [NoCall EXCEPT !.op = "random.addEventListener"]
        /\ UNCHANGED <<genVars, srcVars, cbVars, _defaultParanoia, now, fired, twin>>

\* g.addEntropy(data, e)
DoInstanceAdd ==
    \E e \in ListenerEstimates :
        /\ CanAdd(InstanceEvents)
        /\ addEntropy(DNumber, e, "")
        /\ UNCHANGED twin

NextInstances == DoInstanceListen \/ DoRandomListen \/ DoInstanceAdd

SpecInstances == InitInstance /\ [][NextInstances]_vars

\* the argument list of the event of the channel name raised by the call c
Raised(c, name) == IF name = "seeded" THEN c.seeded ELSE c.progress

\* the callbacks the call c invoked for the channel name
Invoked(c, name) ==
    {c.delivered[i].cb : i \in {j \in 1..Len(c.delivered) : c.delivered[j].name = name}}

\* C30: an event raised by addEntropy on a generator calls exactly the
\* callbacks registered on that generator for the channel.
C30_OwnListeners ==
    [][(call'.op = "addEntropy" /\ call'.result = "ok") =>
          \A name \in Channels :
              Invoked(call', name) =
                  (IF Raised(call', name) # <<>>
                   THEN {e[2] : e \in _callbacks[name]}
                   ELSE {})]_vars

====
